---- MODULE Spec2Model ----
(***************************************************************************)
(* Decision-and-authority core of the Adamantine wallet:                   *)
(*   EQC engine (core/eqc/engine.py), WSQK scope / session                 *)
(*   (core/wsqk/scopes.py, core/wsqk/session.py), runtime capability       *)
(*   (core/runtime/capabilities.py) and the signing gate                   *)
(*   (core/runtime/shield_signing_gate.py).                                *)
(*                                                                         *)
(* Four specifications share the variables below:                          *)
(*   SpecEqc   calls of _merge_verdicts and EQCEngine.decide               *)
(*   Spec      one execute_signing_intent call, step by step               *)
(*   SpecExec  one bound scope and its capability, presented to            *)
(*             execute_with_scope again and again while time passes        *)
(*   SpecConc  threads racing on one WSQKSession                           *)
(* Python None is the string "None" for optional strings and the record    *)
(* NoStepUp / NoCap for optional objects.                                  *)
(***************************************************************************)
EXTENDS Integers, Sequences, FiniteSets, Bags, TLC

VARIABLES
    \* ---- clock and session (shared) ----
    now,            \* int(time.time())
    used_nonces,    \* WSQKSession.used_nonces
    \* ---- SpecEqc ----
    mergeIn,        \* argument list of the last _merge_verdicts call
    mergeOut,       \* its return value
    eqcCall,        \* inputs and trace of the last EQCEngine.decide call
    eqcOut,         \* EQCDecision it returned
    \* ---- Spec (signing gate) ----
    accounts,       \* AccountStore contents: wallet_id -> record state
    gpc,            \* position inside execute_signing_intent
    gcall,          \* keyword arguments of the call
    glog,           \* collaborators invoked so far, in order
    gctx,           \* context built at line 174
    gdecision,      \* decision returned by eqc.decide
    gshield,        \* ShieldDecision returned by shield_eval.evaluate
    gscope,         \* bound.scope
    gcap,           \* capability issued at line 199
    gout,           \* how the call ended
    icall,          \* the execute_intent call that entered the gate, if one did
    \* ---- SpecEngine ----
    engine,         \* EQCEngine: base policy, _enabled_policy_packs, registry._packs keys
    engCall,        \* context and outcome of the decide in progress
    engSeen,        \* first outcome of decide per context under the present configuration
    \* ---- SpecExec ----
    session,        \* the WSQKSession callers share (created_at, expires_at)
    scope,          \* the scope bound by bind_scope_from_eqc
    cap,            \* the capability issued for it
    lastCall,       \* arguments and outcome of the execute_with_scope in progress
    executions,     \* bag of executor invocations so far, by (capability, nonce)
    \* ---- SpecConc ----
    tpc,            \* per thread: position inside consume_nonce / execute_with_scope
    tcall,          \* per thread: arguments
    tout,           \* per thread: outcome
    execCount,      \* number of executor invocations by the threads
    \* ---- SpecPure ----
    fnCall,         \* the pure function applied, its arguments and its result
    \* ---- SpecStore ----
    store,          \* the WalletStorage: backend, contents, transaction flags
    batches,        \* per batch: state, buffers, and what it recorded
    lastOp,         \* the storage operation that returned last
    \* ---- SpecSession ----
    issued,         \* nonces issue_nonce has returned so far
    consumed,       \* (scope_hash, nonce) pairs consume_nonce has accepted so far
    refused,        \* nonces presented in guarded executions that failed a check
    sessCall,       \* the WSQKSession method call that returned last
    \* ---- SpecAccount ----
    acctData,       \* WalletStorage contents under AccountStore: key -> stored dict
    acctSaved,      \* per (wallet_id, account_id): the record saved last, if not deleted
    acctCall        \* the AccountStore method call that returned last

clockVars == <<now, used_nonces>>
engVars   == <<engine, engCall, engSeen>>
eqcVars   == <<mergeIn, mergeOut, eqcCall, eqcOut, engVars>>
gateVars  == <<accounts, gpc, gcall, glog, gctx, gdecision, gshield, gscope, gcap, gout, icall>>
execVars  == <<session, scope, cap, lastCall, executions>>
concVars  == <<tpc, tcall, tout, execCount>>
fnVars    == <<fnCall>>
storeVars == <<store, batches, lastOp>>
sessVars  == <<issued, consumed, refused, sessCall>>
acctVars  == <<acctData, acctSaved, acctCall>>
vars      == <<clockVars, eqcVars, gateVars, execVars, concVars, fnVars, storeVars, sessVars,
               acctVars>>

-----------------------------------------------------------------------------
(* Bounds of the model *)

MaxPacks == 2          \* pack verdicts per merge
MaxTime == 2           \* last clock value
MaxExecutions == 2     \* executor runs recorded in SpecExec
NThreads == 2          \* racing threads in SpecConc
MaxIndex == 2          \* largest address index in a WalletState
MaxEnabled == 3        \* longest list of enabled pack references handed to enable/disable

-----------------------------------------------------------------------------
(* Python helpers *)

\* the comparison keeps the caller's case (mutant of Lower)
LowerKeepsCase(s) == s

\* str.lower() on the strings the model uses
Lower(s) ==
    CASE s = "SEND" -> "send"
      [] s = "Send" -> "send"
      [] s = "Mint" -> "mint"
      [] s = "REDEEM" -> "redeem"
      [] s = "Browser" -> "browser"
      [] s = "EXTENSION" -> "extension"
      [] s = "DigiDollar" -> "digidollar"
      [] s = "DD" -> "dd"
      [] s = "DGB" -> "dgb"
      [] OTHER -> s

\* (ref or "").strip() on the strings the model uses
Strip(ref) == IF ref \in {" ", "None"} THEN "" ELSE ref

\* (x or ""): None and "" are falsy
OrEmpty(s) == IF s = "None" THEN "" ELSE s

\* sha256(json.dumps(d, sort_keys=True)).hexdigest(): an injective image of the
\* canonical serialisation; d is given as the key-sorted list of its items
Sha256(d) == "sha256<" \o ToString(d) \o ">"

-----------------------------------------------------------------------------
(* Verdicts (core.eqc.verdicts is used through Verdict(type, reasons, step_up)) *)

VerdictTypes == {"ALLOW", "STEP_UP", "DENY"}

NoStepUp == [some |-> FALSE, requirements |-> <<>>]
StepUp(reqs) == [some |-> TRUE, requirements |-> reqs]

Verdict(t, rs, su) == [type |-> t, reasons |-> rs, step_up |-> su]

\* ALLOW < STEP_UP < DENY
Rank(t) == CASE t = "ALLOW" -> 0 [] t = "STEP_UP" -> 1 [] t = "DENY" -> 2

\* verdicts a base policy or a pack may hand to the engine
ReasonLists == {<<>>, <<"POLICY_RULE_MATCH">>, <<"LARGE_AMOUNT">>}
StepUps == {NoStepUp, StepUp(<<"confirm_user_intent">>), StepUp(<<"pin">>)}
Verdicts == {Verdict(t, rs, su) : t \in VerdictTypes, rs \in ReasonLists, su \in StepUps}

SeqsUpTo(S, n) == UNION {[1..k -> S] : k \in 0..n}

\* _safe_reason(message, details, code_override)
SafeReason(code_override) ==
    IF code_override # "None" THEN code_override ELSE "ENGINE_INVARIANT"

\* _make_verdict: a verdict with exactly one reason and no step_up
MakeVerdict(vtype, reason_code) == Verdict(vtype, <<SafeReason(reason_code)>>, NoStepUp)

\* _attach_step_up
AttachStepUp(verdict, requirements) == [verdict EXCEPT !.step_up = StepUp(requirements)]

\* [v for v in verdicts if v.type == t]
RECURSIVE OfType(_, _)
OfType(vs, t) ==
    IF vs = <<>> THEN <<>>
    ELSE (IF Head(vs).type = t THEN <<Head(vs)>> ELSE <<>>) \o OfType(Tail(vs), t)

\* only the first chosen verdict's reasons are kept (mutant of ConcatReasons)
ConcatReasonsFirstOnly(vs) == IF vs = <<>> THEN <<>> ELSE Head(vs).reasons

\* merged.extend(_reasons(v)) for v in chosen
RECURSIVE ConcatReasons(_)
ConcatReasons(vs) ==
    IF vs = <<>> THEN <<>> ELSE Head(vs).reasons \o ConcatReasons(Tail(vs))

\* _first_step_up
RECURSIVE FirstStepUp(_)
FirstStepUp(vs) ==
    IF vs = <<>> THEN NoStepUp
    ELSE IF Head(vs).step_up.some THEN Head(vs).step_up
    ELSE FirstStepUp(Tail(vs))

MergedOr(chosen, dflt) ==
    IF ConcatReasons(chosen) = <<>> THEN <<dflt>> ELSE ConcatReasons(chosen)

\* a pack ALLOW placed first wins (mutant of MergeVerdicts)
MergeVerdictsAllowFirst(verdicts) ==
    IF verdicts = <<>> THEN MakeVerdict("DENY", "None")
    ELSE IF OfType(verdicts, "ALLOW") # <<>>
        THEN Verdict("ALLOW", MergedOr(OfType(verdicts, "ALLOW"), SafeReason("None")), NoStepUp)
    ELSE IF OfType(verdicts, "DENY") # <<>>
        THEN Verdict("DENY", MergedOr(OfType(verdicts, "DENY"), SafeReason("None")), NoStepUp)
    ELSE Verdict("STEP_UP", MergedOr(OfType(verdicts, "STEP_UP"), SafeReason("None")),
                 FirstStepUp(OfType(verdicts, "STEP_UP")))

\* _merge_verdicts
MergeVerdicts(verdicts) ==
    IF verdicts = <<>> THEN MakeVerdict("DENY", "None")
    ELSE IF OfType(verdicts, "DENY") # <<>>
        THEN Verdict("DENY", MergedOr(OfType(verdicts, "DENY"), SafeReason("None")), NoStepUp)
    ELSE IF OfType(verdicts, "STEP_UP") # <<>>
        THEN Verdict("STEP_UP", MergedOr(OfType(verdicts, "STEP_UP"), SafeReason("None")),
                     FirstStepUp(OfType(verdicts, "STEP_UP")))
    ELSE IF OfType(verdicts, "ALLOW") # <<>>
        THEN Verdict("ALLOW", MergedOr(OfType(verdicts, "ALLOW"), SafeReason("None")), NoStepUp)
    ELSE verdicts[1]

-----------------------------------------------------------------------------
(* Context snapshot (core/eqc/context.py) *)

\* Optional[int]: <<>> is None, <<n>> is n
NoInt == <<>>

\* EQCContext with the sub-contexts flattened; fields the model never varies
\* keep the dataclass defaults
EQCContext(action, asset, amount, recipient, device_type, os, network, user_id, timestamp, extra) ==
    [action |-> action, asset |-> asset, amount |-> amount, recipient |-> recipient,
     device_type |-> device_type, os |-> os, network |-> network, user_id |-> user_id,
     timestamp |-> timestamp, extra |-> extra]

\* A Python value held in the free-form extra mapping: its type and the text
\* of its content (for a list or tuple, the text of its elements)
Py(type, text) == <<type, text>>

\* json.dumps of a value: a tuple is written as an array, like a list; a bool
\* as true or false, an int as its digits
JsonValue(x) ==
    CASE x[1] = "str" -> "\"" \o x[2] \o "\""
      [] x[1] = "int" -> x[2]
      [] x[1] = "bool" -> IF x[2] = "True" THEN "true" ELSE "false"
      [] x[1] \in {"list", "tuple"} -> "[" \o x[2] \o "]"

\* json.dumps of a mapping key: every key is written as a string (an int key
\* as its digits, a bool key as true or false)
JsonKey(k) ==
    CASE k[1] = "str" -> "\"" \o k[2] \o "\""
      [] k[1] = "int" -> "\"" \o k[2] \o "\""
      [] k[1] = "bool" -> IF k[2] = "True" THEN "\"true\"" ELSE "\"false\""

\* json.dumps(dict(extra), sort_keys=True): items is the mapping's list of
\* <<key, value>> pairs in key order
RECURSIVE JsonDict(_)
JsonDict(items) ==
    IF items = <<>> THEN <<>>
    ELSE <<JsonKey(Head(items)[1]), JsonValue(Head(items)[2])>> \o JsonDict(Tail(items))

\* the extra mapping is left out of the serialisation (mutant of ContextToDict)
ContextToDictWithoutExtra(c) ==
    <<"action", <<"action", c.action, "amount", c.amount, "asset", c.asset,
                  "recipient", c.recipient>>,
      "device", <<"device_type", c.device_type, "os", c.os>>,
      "network", <<"network", c.network>>,
      "timestamp", c.timestamp,
      "user", <<"user_id", c.user_id>> >>

\* EQCContext.to_dict under json.dumps(sort_keys=True): items in key order
ContextToDict(c) ==
    <<"action", <<"action", c.action, "amount", c.amount, "asset", c.asset,
                  "recipient", c.recipient>>,
      "device", <<"device_type", c.device_type, "os", c.os>>,
      "extra", JsonDict(c.extra),
      "network", <<"network", c.network>>,
      "timestamp", c.timestamp,
      "user", <<"user_id", c.user_id>> >>

\* EQCContext.context_hash
ContextHash(c) == Sha256(ContextToDict(c))

-----------------------------------------------------------------------------
(* EQC engine (core/eqc/engine.py) *)

\* self._device.classify(context), self._tx.classify(context): pure signal bags
DeviceSignals(c) == <<"device", Lower(OrEmpty(c.device_type)), c.os>>
TxSignals(c) == <<"tx", Lower(OrEmpty(c.action)), Lower(OrEmpty(c.asset)), c.amount>>

RECURSIVE TypesOf(_)
TypesOf(vs) == IF vs = <<>> THEN <<>> ELSE <<Head(vs).type>> \o TypesOf(Tail(vs))

EQCDecision(context_hash, verdict, signals, trace) ==
    [context_hash |-> context_hash, verdict |-> verdict, signals |-> signals, trace |-> trace]

InvariantSignals(name, c) ==
    [invariant |-> name, device_type |-> Lower(OrEmpty(c.device_type)),
     action |-> Lower(OrEmpty(c.action)), asset |-> Lower(OrEmpty(c.asset)),
     device |-> <<>>, tx |-> <<>>, policy_packs |-> <<>>]

PolicySignals(c, pack_verdicts) ==
    [invariant |-> "None", device_type |-> "None", action |-> "None", asset |-> "None",
     device |-> DeviceSignals(c), tx |-> TxSignals(c), policy_packs |-> TypesOf(pack_verdicts)]

\* the collaborators decide invokes past the hard invariants, in order, each
\* with the arguments it is passed: the classifiers get the context, the base
\* policy and the pack registry the context and both signal bags
DecideTrace(c) ==
    << <<"device_classifier", c>>, <<"tx_classifier", c>>,
       <<"base_policy", c, DeviceSignals(c), TxSignals(c)>>,
       <<"policy_packs", c, DeviceSignals(c), TxSignals(c)>>,
       <<"merge">> >>

\* the mint/redeem invariant is left to the policies (mutant of Decide)
DecideWithoutStepUpInvariant(c, base, pack_verdicts) ==
    LET device_type == Lower(OrEmpty(c.device_type))
    IN  IF device_type = "browser" THEN
            EQCDecision(ContextHash(c), MakeVerdict("DENY", "BROWSER_CONTEXT_BLOCKED"),
                        InvariantSignals("HOSTILE_RUNTIME", c), <<>>)
        ELSE IF device_type = "extension" THEN
            EQCDecision(ContextHash(c), MakeVerdict("DENY", "EXTENSION_CONTEXT_BLOCKED"),
                        InvariantSignals("HOSTILE_RUNTIME", c), <<>>)
        ELSE
            EQCDecision(ContextHash(c), MergeVerdicts(<<base>> \o pack_verdicts),
                        PolicySignals(c, pack_verdicts),
                        DecideTrace(c))

\* EQCEngine.decide; base and pack_verdicts are what the base policy and
\* PolicyPackRegistry.evaluate return for this context. trace lists the
\* collaborators decide invoked.
Decide(c, base, pack_verdicts) ==
    LET device_type == Lower(OrEmpty(c.device_type))
        action_name == Lower(OrEmpty(c.action))
        asset_name == Lower(OrEmpty(c.asset))
    IN  IF device_type = "browser" THEN
            EQCDecision(ContextHash(c), MakeVerdict("DENY", "BROWSER_CONTEXT_BLOCKED"),
                        InvariantSignals("HOSTILE_RUNTIME", c), <<>>)
        ELSE IF device_type = "extension" THEN
            EQCDecision(ContextHash(c), MakeVerdict("DENY", "EXTENSION_CONTEXT_BLOCKED"),
                        InvariantSignals("HOSTILE_RUNTIME", c), <<>>)
        ELSE IF action_name \in {"mint", "redeem"} /\ asset_name \in {"digidollar", "dd"} THEN
            EQCDecision(ContextHash(c),
                        AttachStepUp(MakeVerdict("STEP_UP", "MINT_REDEEM_REQUIRES_STEP_UP"),
                                     <<"confirm_user_intent">>),
                        InvariantSignals("DD_STEP_UP", c), <<>>)
        ELSE
            EQCDecision(ContextHash(c), MergeVerdicts(<<base>> \o pack_verdicts),
                        PolicySignals(c, pack_verdicts),
                        DecideTrace(c))

-----------------------------------------------------------------------------
(* Idle values of each specification's variables *)

NoVerdict == Verdict("None", <<>>, NoStepUp)
NoDecision == EQCDecision("None", NoVerdict, InvariantSignals("None",
                  [device_type |-> "None", action |-> "None", asset |-> "None"]), <<>>)
NoContext == EQCContext("None", "None", NoInt, "None", "None", "None", "None", "None", 0, <<>>)
NoEqcCall == [called |-> FALSE, context |-> NoContext, base |-> NoVerdict, packs |-> <<>>]

EqcIdle ==
    /\ mergeIn = <<>> /\ mergeOut = NoVerdict
    /\ eqcCall = NoEqcCall /\ eqcOut = NoDecision

NoEngine == [policy |-> "None", enabled |-> <<>>, loaded |-> {}]
NoEngCall ==
    [active |-> FALSE, context |-> NoContext, raised |-> "None", decision |-> NoDecision,
     loadedBefore |-> {}]

EngIdle == engine = NoEngine /\ engCall = NoEngCall /\ engSeen = {}

NoFnCall == [fn |-> "None", args |-> <<>>, result |-> <<>>]
FnIdle == fnCall = NoFnCall

StoreKeys == {"x", "y"}
BatchIds == {"a", "b"}
PyNone == <<"NoneType", "None">>
Untouched == <<"-", "untouched">>
Deleted == <<"-", "deleted">>
NoStore ==
    [backend |-> "None", data |-> [k \in StoreKeys |-> PyNone],
     durable |-> [k \in StoreKeys |-> PyNone], in_tx |-> FALSE, conn_tx |-> FALSE]
NoBatch ==
    [state |-> "unused", writes |-> [k \in StoreKeys |-> PyNone], deletes |-> {},
     recorded |-> [k \in StoreKeys |-> Untouched],
     began |-> [k \in StoreKeys |-> PyNone], alone |-> TRUE]
NoOp == [op |-> "None", batch |-> NoBatch, wasOpen |-> FALSE, raised |-> "None"]
StoreIdle == store = NoStore /\ batches = [b \in BatchIds |-> NoBatch] /\ lastOp = NoOp

NoSessCall ==
    [op |-> "None", nonce |-> "None", scope_hash |-> "None", at |-> 0,
     raised |-> "None", message |-> "None", usedBefore |-> {}]
SessIdle == issued = {} /\ consumed = {} /\ refused = {} /\ sessCall = NoSessCall

NoAcctCall ==
    [op |-> "None", wallet_id |-> "None", account_id |-> "None", result |-> "None"]
AcctIdle == acctData = <<>> /\ acctSaved = <<>> /\ acctCall = NoAcctCall

-----------------------------------------------------------------------------
(* WSQK scope (core/wsqk/scopes.py) *)

WSQKScope(wallet_id, action, context_hash, not_before, expires_at) ==
    [wallet_id |-> wallet_id, action |-> action, context_hash |-> context_hash,
     not_before |-> not_before, expires_at |-> expires_at]

\* only the lower bound is tested (mutant of ScopeIsActive)
ScopeIsActiveNoExpiry(s, t) == s.not_before <= t

\* WSQKScope.is_active; assert_active raises unless it holds
ScopeIsActive(s, t) == s.not_before <= t /\ t <= s.expires_at

\* WSQKScope.assert_wallet passes
WalletMatches(s, wallet_id) == wallet_id = s.wallet_id

\* WSQKScope.assert_action passes
ActionMatches(s, action) == Lower(OrEmpty(action)) = Lower(OrEmpty(s.action))

\* the check is skipped (mutant of ContextMatches)
ContextMatchesAlways(s, context_hash) == TRUE

\* WSQKScope.assert_context passes
ContextMatches(s, context_hash) == context_hash = s.context_hash

\* WSQKScope.to_dict under json.dumps(sort_keys=True)
ScopeToDict(s) ==
    <<"action", s.action, "context_hash", s.context_hash, "expires_at", s.expires_at,
      "not_before", s.not_before, "wallet_id", s.wallet_id>>

\* WSQKScope.scope_hash
ScopeHash(s) == Sha256(ScopeToDict(s))

\* bind_scope_from_eqc(decision, wallet_id, action, ttl_seconds) at time t:
\* a scope for the decision's context, valid from t to t + ttl_seconds
BindScope(decision, wallet_id, action, ttl_seconds, t) ==
    WSQKScope(wallet_id, action, decision.context_hash, t, t + ttl_seconds)

\* binding is refused unless the decision allows
BindAllowed(decision) == decision.verdict.type = "ALLOW"

-----------------------------------------------------------------------------
(* Runtime capability (core/runtime/capabilities.py) *)

RuntimeCapability(token, scope_hash, issued_at, ttl_seconds) ==
    [token |-> token, scope_hash |-> scope_hash, issued_at |-> issued_at,
     ttl_seconds |-> ttl_seconds]

\* capability=None
NoCap == RuntimeCapability("None", "None", 0, NoInt)

\* the capability lapses at its deadline, not after it (mutant of IsExpired)
IsExpiredAtDeadline(c, t) ==
    IF c.ttl_seconds = NoInt THEN FALSE ELSE t >= c.issued_at + c.ttl_seconds[1]

\* RuntimeCapability.is_expired
IsExpired(c, t) ==
    IF c.ttl_seconds = NoInt THEN FALSE ELSE t > c.issued_at + c.ttl_seconds[1]

\* expiry is not looked at (mutant of CapValid)
CapValidIgnoresExpiry(c, t) == OrEmpty(c.token) # "" /\ OrEmpty(c.scope_hash) # ""

\* RuntimeCapability.assert_valid passes
CapValid(c, t) == OrEmpty(c.token) # "" /\ OrEmpty(c.scope_hash) # "" /\ ~IsExpired(c, t)

\* issue_runtime_capability; token stands for secrets.token_urlsafe(32)
IssueRuntimeCapability(token, scope_hash, ttl_seconds, t) ==
    RuntimeCapability(token, scope_hash, t, ttl_seconds)

-----------------------------------------------------------------------------
(* WSQK session (core/wsqk/session.py) *)

\* WSQKSession.__post_init__
WSQKSession(created_at, ttl_seconds) ==
    [created_at |-> created_at, expires_at |-> created_at + ttl_seconds]

\* the upper end of the window is not checked (mutant of SessionIsActive)
SessionIsActiveFromCreation(ss, t) == ss.created_at <= t

\* WSQKSession.is_active
SessionIsActive(ss, t) == ss.created_at <= t /\ t <= ss.expires_at

\* key = f"{scope_hash}:{nonce}" if scope_hash else nonce
NonceKey(scope_hash, nonce) ==
    IF scope_hash # "None" /\ scope_hash # "" THEN scope_hash \o ":" \o nonce ELSE nonce

\* the membership test is dropped (mutant of NonceUsed)
NonceUsedNever(used, key) == FALSE

\* key in self.used_nonces
NonceUsed(used, key) == key \in used

\* WSQKSession.consume_nonce run without interruption: error kind or "OK"
ConsumeOutcome(ss, used, nonce, scope_hash, t) ==
    IF ~SessionIsActive(ss, t) THEN "SESSION_NOT_ACTIVE"
    ELSE IF NonceUsed(used, NonceKey(scope_hash, nonce)) THEN "NONCE_REPLAY"
    ELSE "OK"

\* the key is not added (mutant of ConsumeEffect)
ConsumeEffectForgets(ss, used, nonce, scope_hash, t) == used

\* self.used_nonces after the call
ConsumeEffect(ss, used, nonce, scope_hash, t) ==
    IF ConsumeOutcome(ss, used, nonce, scope_hash, t) = "OK"
    THEN used \cup {NonceKey(scope_hash, nonce)} ELSE used

-----------------------------------------------------------------------------
(* Guarded executor: execute_with_scope(scope, context, wallet_id, action,     *)
(* executor, capability, session?, nonce?, now)                                *)

\* checks 1-4, in order; the first failing check names the error
GuardChecks(s, context, wallet_id, action, c, t) ==
    IF ~ScopeIsActive(s, t) THEN "SCOPE_NOT_ACTIVE"
    ELSE IF ~WalletMatches(s, wallet_id) THEN "SCOPE_MISMATCH"
    ELSE IF ~ActionMatches(s, action) THEN "SCOPE_MISMATCH"
    ELSE IF ~ContextMatches(s, ContextHash(context)) THEN "SCOPE_MISMATCH"
    ELSE IF c = NoCap THEN "CAPABILITY_INVALID"
    ELSE IF ~CapValid(c, t) THEN "CAPABILITY_INVALID"
    ELSE IF c.scope_hash # ScopeHash(s) THEN "CAPABILITY_INVALID"
    ELSE "OK"

\* checks 1-5: with a session the nonce is consumed after checks 1-4 pass
GuardOutcome(s, context, wallet_id, action, c, ss, used, withSession, nonce, t) ==
    IF GuardChecks(s, context, wallet_id, action, c, t) # "OK"
    THEN GuardChecks(s, context, wallet_id, action, c, t)
    ELSE IF withSession THEN ConsumeOutcome(ss, used, nonce, ScopeHash(s), t)
    ELSE "OK"

\* session.used_nonces after the call: the nonce is consumed only when the
\* call gets as far as check 5
GuardEffect(s, context, wallet_id, action, c, ss, used, withSession, nonce, t) ==
    IF withSession /\ GuardChecks(s, context, wallet_id, action, c, t) = "OK"
    THEN ConsumeEffect(ss, used, nonce, ScopeHash(s), t) ELSE used

-----------------------------------------------------------------------------
(* Value sets the specifications draw their inputs from *)

Wallets == {"w1", "w2"}
Threads == 1..NThreads

NoScope == WSQKScope("None", "None", "None", 0, 0)
NoSession == WSQKSession(0, 0)
NoShield == [blocked |-> "unset", reason |-> "None"]
NoOut == [raised |-> "None", kind |-> "None", value |-> "None"]
NoGateCall ==
    [wallet_id |-> "None", account_id |-> "None", action |-> "None", asset |-> "None",
     device_type |-> "None", is_watch_only |-> "None", account_store |-> FALSE,
     use_wsqk |-> FALSE, ttl_seconds |-> 0]
NoIntentCall ==
    [active |-> FALSE, wallet_id |-> "None", account_id |-> "None", action |-> "None",
     to_address |-> "None", amount_minor |-> NoInt, use_wsqk |-> FALSE]
NoCall ==
    [active |-> FALSE, context |-> NoContext, wallet_id |-> "None", action |-> "None",
     capability |-> NoCap, withSession |-> FALSE, nonce |-> "None", at |-> 0,
     outcome |-> "None", executor |-> "None", ranBefore |-> FALSE, sameBefore |-> FALSE,
     usedBefore |-> {}]

ClockIdle == now = 0 /\ used_nonces = {}

GateIdle ==
    /\ accounts = [w \in Wallets |-> "absent"]
    /\ gpc = "off" /\ gcall = NoGateCall /\ glog = <<>> /\ gctx = NoContext
    /\ gdecision = NoDecision /\ gshield = NoShield /\ gscope = NoScope
    /\ gcap = NoCap /\ gout = NoOut /\ icall = NoIntentCall

ExecIdle ==
    /\ session = NoSession /\ scope = NoScope /\ cap = NoCap
    /\ lastCall = NoCall /\ executions = EmptyBag

ConcIdle ==
    /\ tpc = [t \in Threads |-> "off"]
    /\ tcall = [t \in Threads |-> [entry |-> "None", nonce |-> "None"]]
    /\ tout = [t \in Threads |-> "None"]
    /\ execCount = [n \in {"n1", "n2"} |-> 0]

-----------------------------------------------------------------------------
(* SpecEqc: the engine's pure functions applied to bounded inputs *)

\* contexts handed to decide: device type, (action, asset)
EqcDeviceTypes == {"mobile", "Browser", "EXTENSION"}
EqcActions == {<<"send", "DGB">>, <<"Mint", "DigiDollar">>, <<"REDEEM", "dd">>, <<"Mint", "DGB">>}
EqcContexts ==
    {EQCContext(a[1], a[2], <<1>>, "DGB1-test", d, "ios", "mainnet", "user-1", 0, <<>>) :
        a \in EqcActions, d \in EqcDeviceTypes}

InitEqc ==
    /\ ClockIdle /\ EqcIdle /\ EngIdle /\ FnIdle /\ StoreIdle /\ SessIdle /\ AcctIdle
    /\ GateIdle /\ ExecIdle /\ ConcIdle

\* _merge_verdicts(verdicts) on any list of verdicts, the empty one included
MergeCall ==
    /\ EqcIdle
    /\ \E vs \in SeqsUpTo(Verdicts, MaxPacks + 1) :
        /\ mergeIn' = vs
        /\ mergeOut' = MergeVerdicts(vs)
    /\ eqcCall' = NoEqcCall /\ eqcOut' = NoDecision
    /\ UNCHANGED <<engVars, clockVars, gateVars, execVars, concVars, fnVars, storeVars,
                   sessVars, acctVars>>

\* EQCEngine.decide(context) with a base policy answering base and the
\* enabled packs answering packs
DecideCall ==
    /\ EqcIdle
    /\ \E c \in EqcContexts, base \in Verdicts, packs \in SeqsUpTo(Verdicts, MaxPacks - 1) :
        /\ eqcCall' = [called |-> TRUE, context |-> c, base |-> base, packs |-> packs]
        /\ eqcOut' = Decide(c, base, packs)
    /\ mergeIn' = <<>> /\ mergeOut' = NoVerdict
    /\ UNCHANGED <<engVars, clockVars, gateVars, execVars, concVars, fnVars, storeVars,
                   sessVars, acctVars>>

\* the caller takes the result; the engine keeps nothing between calls
EqcReturn ==
    /\ ~EqcIdle
    /\ mergeIn' = <<>> /\ mergeOut' = NoVerdict
    /\ eqcCall' = NoEqcCall /\ eqcOut' = NoDecision
    /\ UNCHANGED <<engVars, clockVars, gateVars, execVars, concVars, fnVars, storeVars,
                   sessVars, acctVars>>

NextEqc == MergeCall \/ DecideCall \/ EqcReturn

SpecEqc == InitEqc /\ [][NextEqc]_vars

\* C10: the merged verdict is at least as strict as the base verdict (the
\* first of the list) under ALLOW < STEP_UP < DENY, whatever the packs
\* return, both in a direct merge and in the merge decide performs.
C10_MergeTightens ==
    /\ mergeIn # <<>> => Rank(mergeOut.type) >= Rank(mergeIn[1].type)
    /\ (eqcCall.called /\ eqcOut.trace # <<>>) =>
            Rank(eqcOut.verdict.type) >= Rank(eqcCall.base.type)

\* a base DENY merged with a pack ALLOW stays DENY
C10_Witness ==
    /\ Len(mergeIn) >= 2
    /\ mergeIn[1].type = "DENY"
    /\ \E i \in 2..Len(mergeIn) : mergeIn[i].type = "ALLOW"
    /\ mergeOut.type = "DENY"

-----------------------------------------------------------------------------
(* Signing gate (core/runtime/shield_signing_gate.py) *)

\* SigningIntent.intent_hash: sha256 of the key-sorted payload
IntentHash(call) ==
    Sha256(<<"account_id", call.account_id, "action", call.action, "asset", call.asset,
             "device_type", call.device_type, "wallet_id", call.wallet_id>>)

\* _build_eqc_context at time t (EQCContext.timestamp defaults to the clock);
\* recipient = intent.recipient or intent.to_address, network = network_type
BuildEqcContext(call, t) ==
    EQCContext(call.action, call.asset, NoInt, "DGB1-test", call.device_type, "ios",
               "unknown", "user", t,
               << <<Py("str", "intent_hash"), Py("str", IntentHash(call))>> >>)

\* AccountStore.is_watch_only: False without a record, else the record's flag
StoreIsWatchOnly(accts, wallet_id) == accts[wallet_id] = "watch_only"

\* the store is never consulted (mutant of WatchOnlyVeto)
WatchOnlyVetoPredicateOnly(call, accts) == call.is_watch_only = "returns_true"

\* the store is asked first when it is given (mutant of WatchOnlyVeto)
WatchOnlyVetoStoreFirst(call, accts) ==
    IF call.account_store THEN StoreIsWatchOnly(accts, call.wallet_id)
    ELSE call.is_watch_only = "returns_true"

\* lines 164-169: the injected predicate first, else the persisted store
WatchOnlyVeto(call, accts) ==
    IF call.is_watch_only # "None" THEN call.is_watch_only = "returns_true"
    ELSE IF call.account_store THEN StoreIsWatchOnly(accts, call.wallet_id)
    ELSE FALSE

\* which source lines 164-169 consult
WatchOnlySource(call) ==
    IF call.is_watch_only # "None" THEN <<"is_watch_only">>
    ELSE IF call.account_store THEN <<"account_store.is_watch_only">>
    ELSE <<>>

\* STEP_UP is let through (mutant of EqcAllows)
EqcAllowsUnlessDeny(decision) == decision.verdict.type # "DENY"

\* line 182: decision.verdict.type == VerdictType.ALLOW
EqcAllows(decision) == decision.verdict.type = "ALLOW"

\* Python truth value of the attribute read by getattr(sdec, "blocked", False)
Truthy(v) == v \notin {"False", "0", "", "None", "missing"}

\* only the literal True blocks (mutant of ShieldBlocks)
ShieldBlocksIfTrue(sdec) == sdec.blocked = "True"

\* line 186: getattr(sdec, "blocked", False)
ShieldBlocks(sdec) == Truthy(sdec.blocked)

ExecutionBlocked(kind) == [raised |-> "ExecutionBlocked", kind |-> kind, value |-> "None"]
WSQKExecutionError(kind) == [raised |-> "WSQKExecutionError", kind |-> kind, value |-> "None"]
Returned(value) == [raised |-> "None", kind |-> "OK", value |-> value]

\* inputs of the call
GateIntents ==
    {[wallet_id |-> w, account_id |-> "a1", action |-> a[1], asset |-> a[2], device_type |-> d] :
        w \in Wallets, a \in {<<"send", "DGB">>, <<"Mint", "DigiDollar">>},
        d \in {"mobile", "Browser"}}
WatchOnlyPredicates == {"None", "returns_false", "returns_true"}
GateTtls == {-1, 1}
AccountStates == {"absent", "signing", "watch_only"}
ShieldDecisions ==
    {[blocked |-> b, reason |-> "shield"] : b \in {"False", "True", "missing", "1", "0"}}
GateBaseVerdicts ==
    {Verdict("ALLOW", <<"POLICY_RULE_MATCH">>, NoStepUp),
     Verdict("STEP_UP", <<"POLICY_RULE_MATCH">>, StepUp(<<"pin">>)),
     Verdict("DENY", <<"POLICY_RULE_MATCH">>, NoStepUp)}
GatePackVerdicts ==
    {<<>>, <<Verdict("ALLOW", <<>>, NoStepUp)>>,
     <<Verdict("STEP_UP", <<"LARGE_AMOUNT">>, StepUp(<<"confirm_user_intent">>))>>}

Contains(log, e) == \E i \in 1..Len(log) : log[i] = e

\* the state between two calls of the gate
GateAtRest ==
    /\ gpc = "idle" /\ gcall = NoGateCall /\ glog = <<>> /\ gctx = NoContext
    /\ gdecision = NoDecision /\ gshield = NoShield /\ gscope = NoScope
    /\ gcap = NoCap /\ gout = NoOut /\ icall = NoIntentCall

Init ==
    /\ ClockIdle /\ EqcIdle /\ EngIdle /\ FnIdle
    /\ StoreIdle /\ SessIdle /\ AcctIdle /\ ExecIdle /\ ConcIdle
    /\ accounts \in [Wallets -> AccountStates]
    /\ GateAtRest

\* execute_signing_intent(intent=..., executor=..., account_store=..., is_watch_only=...,
\* use_wsqk=..., ttl_seconds=...) is entered
GateCall ==
    /\ gpc = "idle"
    /\ \E i \in GateIntents, p \in WatchOnlyPredicates, st \in BOOLEAN, u \in BOOLEAN,
          ttl \in GateTtls :
        gcall' = [wallet_id |-> i.wallet_id, account_id |-> i.account_id,
                  action |-> i.action, asset |-> i.asset, device_type |-> i.device_type,
                  is_watch_only |-> p, account_store |-> st, use_wsqk |-> u,
                  ttl_seconds |-> ttl]
    /\ gpc' = "watch"
    /\ UNCHANGED <<icall, accounts, glog, gctx, gdecision, gshield, gscope, gcap, gout>>
    /\ UNCHANGED <<clockVars, eqcVars, execVars, concVars, fnVars, storeVars, sessVars, acctVars>>

\* lines 164-169
GateWatchOnly ==
    /\ gpc = "watch"
    /\ glog' = glog \o WatchOnlySource(gcall)
    /\ IF WatchOnlyVeto(gcall, accounts)
       THEN gpc' = "done" /\ gout' = ExecutionBlocked("WATCH_ONLY_FORBIDDEN")
       ELSE gpc' = "context" /\ gout' = gout
    /\ UNCHANGED <<icall, accounts, gcall, gctx, gdecision, gshield, gscope, gcap>>
    /\ UNCHANGED <<clockVars, eqcVars, execVars, concVars, fnVars, storeVars, sessVars, acctVars>>

\* line 174
GateBuildContext ==
    /\ gpc = "context"
    /\ gctx' = BuildEqcContext(gcall, now)
    /\ glog' = Append(glog, "build_context")
    /\ gpc' = "eqc"
    /\ UNCHANGED <<icall, accounts, gcall, gdecision, gshield, gscope, gcap, gout>>
    /\ UNCHANGED <<clockVars, eqcVars, execVars, concVars, fnVars, storeVars, sessVars, acctVars>>

\* lines 175-183
GateDecide ==
    /\ gpc = "eqc"
    /\ \E base \in GateBaseVerdicts, packs \in GatePackVerdicts :
        /\ gdecision' = Decide(gctx, base, packs)
        /\ IF EqcAllows(gdecision')
           THEN gpc' = "shield" /\ gout' = gout
           ELSE gpc' = "done" /\ gout' = ExecutionBlocked("EQC_BLOCKED")
    /\ glog' = Append(glog, "eqc.decide")
    /\ UNCHANGED <<icall, accounts, gcall, gctx, gshield, gscope, gcap>>
    /\ UNCHANGED <<clockVars, eqcVars, execVars, concVars, fnVars, storeVars, sessVars, acctVars>>

\* use_wsqk=False goes straight to the executor (mutant of GateShield)
GateShieldSkippedWhenDirect ==
    /\ gpc = "shield"
    /\ IF gcall.use_wsqk
       THEN \E sdec \in ShieldDecisions :
              /\ gshield' = sdec
              /\ glog' = Append(glog, "shield.evaluate")
              /\ IF ShieldBlocks(sdec)
                 THEN gpc' = "done" /\ gout' = ExecutionBlocked("SHIELD_BLOCKED")
                 ELSE gpc' = "branch" /\ gout' = gout
       ELSE gpc' = "branch" /\ UNCHANGED <<gshield, glog, gout>>
    /\ UNCHANGED <<icall, accounts, gcall, gctx, gdecision, gscope, gcap>>
    /\ UNCHANGED <<clockVars, eqcVars, execVars, concVars, fnVars, storeVars, sessVars, acctVars>>

\* lines 185-187
GateShield ==
    /\ gpc = "shield"
    /\ \E sdec \in ShieldDecisions :
        /\ gshield' = sdec
        /\ IF ShieldBlocks(sdec)
           THEN gpc' = "done" /\ gout' = ExecutionBlocked("SHIELD_BLOCKED")
           ELSE gpc' = "branch" /\ gout' = gout
    /\ glog' = Append(glog, "shield.evaluate")
    /\ UNCHANGED <<icall, accounts, gcall, gctx, gdecision, gscope, gcap>>
    /\ UNCHANGED <<clockVars, eqcVars, execVars, concVars, fnVars, storeVars, sessVars, acctVars>>

\* lines 189-190: use_wsqk=False runs the executor directly
GateExecutorDirect ==
    /\ gpc = "branch" /\ ~gcall.use_wsqk
    /\ glog' = Append(glog, "executor")
    /\ gout' = Returned("executor_result")
    /\ gpc' = "done"
    /\ UNCHANGED <<icall, accounts, gcall, gctx, gdecision, gshield, gscope, gcap>>
    /\ UNCHANGED <<clockVars, eqcVars, execVars, concVars, fnVars, storeVars, sessVars, acctVars>>

\* lines 192-197
GateBind ==
    /\ gpc = "branch" /\ gcall.use_wsqk
    /\ glog' = Append(glog, "bind_scope")
    /\ IF BindAllowed(gdecision)
       THEN /\ gscope' = BindScope(gdecision, gcall.wallet_id, gcall.action,
                                   gcall.ttl_seconds, now)
            /\ gpc' = "issue" /\ gout' = gout
       ELSE gscope' = gscope /\ gpc' = "done" /\ gout' = [raised |-> "WSQKBindError",
                                      kind |-> "BIND_REFUSED", value |-> "None"]
    /\ UNCHANGED <<icall, accounts, gcall, gctx, gdecision, gshield, gcap>>
    /\ UNCHANGED <<clockVars, eqcVars, execVars, concVars, fnVars, storeVars, sessVars, acctVars>>

\* the capability is issued for the context hash instead of the scope hash
\* (mutant of GateIssue)
GateIssueForContext ==
    /\ gpc = "issue"
    /\ gcap' = IssueRuntimeCapability("token-1", gscope.context_hash,
                                      <<gcall.ttl_seconds>>, now)
    /\ glog' = Append(glog, "issue_capability")
    /\ gpc' = "guard"
    /\ UNCHANGED <<icall, accounts, gcall, gctx, gdecision, gshield, gscope, gout>>
    /\ UNCHANGED <<clockVars, eqcVars, execVars, concVars, fnVars, storeVars, sessVars, acctVars>>

\* lines 199-202
GateIssue ==
    /\ gpc = "issue"
    /\ gcap' = IssueRuntimeCapability("token-1", ScopeHash(gscope), <<gcall.ttl_seconds>>, now)
    /\ glog' = Append(glog, "issue_capability")
    /\ gpc' = "guard"
    /\ UNCHANGED <<icall, accounts, gcall, gctx, gdecision, gshield, gscope, gout>>
    /\ UNCHANGED <<clockVars, eqcVars, execVars, concVars, fnVars, storeVars, sessVars, acctVars>>

\* lines 204-212: execute_with_scope without session and nonce
GateGuarded ==
    /\ gpc = "guard"
    /\ LET o == GuardOutcome(gscope, gctx, gcall.wallet_id, gcall.action, gcap,
                             NoSession, used_nonces, FALSE, "None", now)
       IN  IF o = "OK"
           THEN /\ glog' = glog \o <<"execute_with_scope", "executor">>
                /\ gout' = Returned("executor_result")
           ELSE /\ glog' = Append(glog, "execute_with_scope")
                /\ gout' = WSQKExecutionError(o)
    /\ gpc' = "done"
    /\ UNCHANGED <<icall, accounts, gcall, gctx, gdecision, gshield, gscope, gcap>>
    /\ UNCHANGED <<clockVars, eqcVars, execVars, concVars, fnVars, storeVars, sessVars, acctVars>>

\* the call has returned or raised; the gate keeps nothing between calls
GateReturn ==
    /\ gpc = "done"
    /\ gpc' = "idle" /\ gcall' = NoGateCall /\ glog' = <<>> /\ gctx' = NoContext
    /\ gdecision' = NoDecision /\ gshield' = NoShield /\ gscope' = NoScope
    /\ gcap' = NoCap /\ gout' = NoOut /\ icall' = NoIntentCall
    /\ UNCHANGED <<accounts>>
    /\ UNCHANGED <<clockVars, eqcVars, execVars, concVars, fnVars, storeVars, sessVars, acctVars>>

\* the clock advances while the gate is between two of its steps
GateTick ==
    /\ gpc \notin {"idle", "done"}
    /\ now < MaxTime
    /\ now' = now + 1
    /\ UNCHANGED <<used_nonces, eqcVars, gateVars, execVars, concVars, fnVars, storeVars,
                   sessVars, acctVars>>

\* arguments execute_signing_intent leaves at their defaults
DefaultTtl == 120

\* intents handed to execute_intent
IntentActions == {"sign", "Send", "transfer", "sync", "redeem"}
WalletIntents ==
    {[wallet_id |-> w, account_id |-> a, action |-> act, to_address |-> to,
      amount_minor |-> amt] :
        w \in {"w1", ""}, a \in {"a1", ""}, act \in IntentActions,
        to \in {"None", "", "DGB1-A"}, amt \in {NoInt, <<0>>}}

SigningLike == {"sign", "send", "transfer", "mint", "message_sign"}

\* send and transfer are routed without looking at their fields
\* (mutant of IntentOutcome)
IntentOutcomeUnvalidated(intent) ==
    IF OrEmpty(intent.wallet_id) = "" \/ OrEmpty(intent.account_id) = "" THEN "ValueError"
    ELSE IF Lower(Strip(intent.action)) \in SigningLike THEN "gate"
    ELSE "ExecutionBlocked"

\* execute_intent up to the call of execute_signing_intent: the error it
\* raises, or "gate" when the intent is handed to the gate
IntentOutcome(intent) ==
    IF OrEmpty(intent.wallet_id) = "" \/ OrEmpty(intent.account_id) = "" THEN "ValueError"
    ELSE IF Lower(Strip(intent.action)) \in SigningLike
         THEN IF /\ Lower(Strip(intent.action)) \in {"send", "transfer"}
                 /\ (OrEmpty(intent.to_address) = "" \/ intent.amount_minor = NoInt)
              THEN "ValueError"
              ELSE "gate"
    ELSE "ExecutionBlocked"

\* execute_intent(intent=..., executor=..., shield=..., use_wsqk=...): it
\* raises, or enters execute_signing_intent with the mapped SigningIntent and
\* every other argument at its default
IntentCall ==
    /\ gpc = "idle"
    /\ \E i \in WalletIntents, u \in BOOLEAN :
        /\ icall' = [active |-> TRUE, wallet_id |-> i.wallet_id,
                     account_id |-> i.account_id, action |-> i.action,
                     to_address |-> i.to_address, amount_minor |-> i.amount_minor,
                     use_wsqk |-> u]
        /\ IF IntentOutcome(i) = "gate"
           THEN /\ gcall' = [wallet_id |-> i.wallet_id, account_id |-> i.account_id,
                             action |-> i.action, asset |-> "DGB", device_type |-> "mobile",
                             is_watch_only |-> "None", account_store |-> FALSE,
                             use_wsqk |-> u, ttl_seconds |-> DefaultTtl]
                /\ gpc' = "watch" /\ gout' = gout
           ELSE /\ gcall' = gcall
                /\ gpc' = "done"
                /\ gout' = IF IntentOutcome(i) = "ValueError"
                           THEN [raised |-> "ValueError", kind |-> "MALFORMED_INPUT",
                                 value |-> "None"]
                           ELSE ExecutionBlocked("UNSUPPORTED_ACTION")
    /\ UNCHANGED <<accounts, glog, gctx, gdecision, gshield, gscope, gcap>>
    /\ UNCHANGED <<clockVars, eqcVars, execVars, concVars, fnVars, storeVars, sessVars, acctVars>>

Next ==
    \/ IntentCall
    \/ GateCall \/ GateWatchOnly \/ GateBuildContext \/ GateDecide \/ GateShield
    \/ GateExecutorDirect \/ GateBind \/ GateIssue \/ GateGuarded \/ GateReturn
    \/ GateTick

Spec == Init /\ [][Next]_vars

-----------------------------------------------------------------------------
(* Claims about the signing gate, checked under Spec *)

\* nothing after the EQC decision was invoked and nothing was minted
NothingPastEqc ==
    /\ ~Contains(glog, "shield.evaluate") /\ ~Contains(glog, "bind_scope")
    /\ ~Contains(glog, "issue_capability") /\ ~Contains(glog, "execute_with_scope")
    /\ ~Contains(glog, "executor")
    /\ gscope = NoScope /\ gcap = NoCap

\* nothing after the Shield evaluation was invoked and nothing was minted
NothingPastShield ==
    /\ ~Contains(glog, "bind_scope") /\ ~Contains(glog, "issue_capability")
    /\ ~Contains(glog, "execute_with_scope") /\ ~Contains(glog, "executor")
    /\ gscope = NoScope /\ gcap = NoCap

\* C1: once EQC.decide has returned a verdict that is not ALLOW (DENY or
\* STEP_UP), the call has failed with the EQC block and neither Shield, scope
\* binding, capability issuance nor the executor was invoked.
C1_EqcBlockStops ==
    (Contains(glog, "eqc.decide") /\ gdecision.verdict.type # "ALLOW") =>
        /\ gpc = "done"
        /\ gout = ExecutionBlocked("EQC_BLOCKED")
        /\ NothingPastEqc

\* a STEP_UP verdict stopped a call that asked for the scope/capability path
C1_Witness ==
    /\ gcall.use_wsqk
    /\ gdecision.verdict.type = "STEP_UP"
    /\ gout = ExecutionBlocked("EQC_BLOCKED")

\* C2: once Shield has returned a decision with a truthy blocked, the call has
\* failed with the Shield block, whatever use_wsqk is; the executor was not
\* invoked, no scope was bound and no capability was issued.
C2_ShieldBlockStops ==
    (Contains(glog, "shield.evaluate") /\ Truthy(gshield.blocked)) =>
        /\ gpc = "done"
        /\ gout = ExecutionBlocked("SHIELD_BLOCKED")
        /\ NothingPastShield

\* a truthy blocked that is not the literal True stopped a use_wsqk=True call
C2_Witness ==
    /\ gcall.use_wsqk
    /\ gshield.blocked = "1"
    /\ gout = ExecutionBlocked("SHIELD_BLOCKED")

\* the call was vetoed as watch-only before anything else was invoked
VetoedFirst(consulted) ==
    /\ gpc = "done"
    /\ gout = ExecutionBlocked("WATCH_ONLY_FORBIDDEN")
    /\ glog = consulted

\* C3 as stated: whenever the account store passed to the call reports the
\* account watch-only, the call fails with the watch-only block before
\* EQC.decide, and Shield and the executor are never invoked.
C3_StoreAlwaysVetoes ==
    (gpc \notin {"idle", "watch"} /\ gcall.account_store
        /\ accounts[gcall.wallet_id] = "watch_only") =>
        /\ gpc = "done"
        /\ gout = ExecutionBlocked("WATCH_ONLY_FORBIDDEN")
        /\ ~Contains(glog, "eqc.decide") /\ ~Contains(glog, "shield.evaluate")
        /\ ~Contains(glog, "executor")

\* C3 amended: whenever no is_watch_only predicate is injected and the account
\* store passed to the call reports the account watch-only, the call fails
\* with the watch-only block and the store lookup is all that was invoked;
\* with a predicate injected, the predicate alone decides and a predicate
\* answering true vetoes in the same way.
C3_ConsultedSourceVetoes ==
    /\ (gpc \notin {"idle", "watch"} /\ gcall.is_watch_only = "None"
            /\ gcall.account_store /\ accounts[gcall.wallet_id] = "watch_only") =>
         VetoedFirst(<<"account_store.is_watch_only">>)
    /\ (gpc \notin {"idle", "watch"} /\ gcall.is_watch_only = "returns_true") =>
         VetoedFirst(<<"is_watch_only">>)

\* the store vetoed a call that would otherwise have been allowed to reach EQC
C3_Witness ==
    /\ gcall.is_watch_only = "None" /\ gcall.account_store
    /\ accounts[gcall.wallet_id] = "watch_only"
    /\ gout = ExecutionBlocked("WATCH_ONLY_FORBIDDEN")

\* whether steps 1-4 are over: the gate was entered and the call went past
\* the Shield check or ended
Steps14Over == gcall # NoGateCall /\ gpc \in {"branch", "issue", "guard", "done"}

\* C4: with use_wsqk=False the executor runs only after the watch-only
\* check, context construction, EQC decision and Shield evaluation, in that
\* order, have all passed; and how steps 1-4 end is decided by the other
\* inputs alone, the same for both values of use_wsqk.
C4_ToggleKeepsSteps ==
    /\ (~gcall.use_wsqk /\ Contains(glog, "executor")) =>
         /\ glog = WatchOnlySource(gcall) \o
                   <<"build_context", "eqc.decide", "shield.evaluate", "executor">>
         /\ gcall.is_watch_only # "returns_true"
         /\ (gcall.is_watch_only = "None" /\ gcall.account_store) =>
                accounts[gcall.wallet_id] # "watch_only"
         /\ gdecision.verdict.type = "ALLOW"
         /\ ~Truthy(gshield.blocked)
    /\ Steps14Over =>
         IF \/ gcall.is_watch_only = "returns_true"
            \/ /\ gcall.is_watch_only = "None" /\ gcall.account_store
               /\ accounts[gcall.wallet_id] = "watch_only"
         THEN gout.kind = "WATCH_ONLY_FORBIDDEN"
         ELSE IF gdecision.verdict.type # "ALLOW" THEN gout.kind = "EQC_BLOCKED"
         ELSE IF Contains(glog, "shield.evaluate") /\ Truthy(gshield.blocked)
              THEN gout.kind = "SHIELD_BLOCKED"
         ELSE /\ gout.kind \notin {"WATCH_ONLY_FORBIDDEN", "EQC_BLOCKED", "SHIELD_BLOCKED"}
              /\ Len(glog) >= Len(WatchOnlySource(gcall)) + 3
              /\ SubSeq(glog, 1, Len(WatchOnlySource(gcall)) + 3) =
                     WatchOnlySource(gcall) \o
                     <<"build_context", "eqc.decide", "shield.evaluate">>

\* a use_wsqk=False call ran the executor
C4_Witness ==
    /\ ~gcall.use_wsqk /\ gpc = "done"
    /\ Contains(glog, "executor")
    /\ gout = Returned("executor_result")

-----------------------------------------------------------------------------
(* SpecExec: a scope bound from an ALLOW decision at time 0 and the capability *)
(* issued for it are presented to execute_with_scope by sequential callers,    *)
(* with or without the shared session, while the clock advances                *)

ExecContextA ==
    EQCContext("send", "DGB", <<1000>>, "DGB1-A", "mobile", "ios", "mainnet", "user-1", 0, <<>>)
ExecContextB ==
    EQCContext("send", "DGB", <<1000>>, "DGB1-B", "mobile", "ios", "mainnet", "user-1", 0, <<>>)
ExecContexts == {ExecContextA, ExecContextB}
ExecActions == {"SEND", "sign"}
ExecNonces == {"n1", "n2"}
ScopeTtls == {1, 2}
CapTtls == {NoInt, <<0>>, <<1>>}
SessionTtls == {0, 2}

\* engine.decide(ctx) of a context the base policy allows, no packs enabled
AllowDecision(c) == Decide(c, Verdict("ALLOW", <<"POLICY_RULE_MATCH">>, NoStepUp), <<>>)

\* a capability issued for another scope
ForeignCap == IssueRuntimeCapability("token-2", "scope-A", NoInt, 0)

InitExec ==
    /\ ClockIdle /\ EqcIdle /\ EngIdle /\ FnIdle
    /\ StoreIdle /\ SessIdle /\ AcctIdle /\ GateIdle /\ ConcIdle
    /\ \E ttl \in ScopeTtls :
        scope = BindScope(AllowDecision(ExecContextA), "w1", "send", ttl, 0)
    /\ \E ttl \in CapTtls :
        cap = IssueRuntimeCapability("token-1", ScopeHash(scope), ttl, 0)
    /\ \E ttl \in SessionTtls : session = WSQKSession(0, ttl)
    /\ lastCall = NoCall
    /\ executions = EmptyBag

\* one executor invocation, as the caller's spy records it, and how it ended
Execution(c) ==
    [token |-> c.capability.token, withSession |-> c.withSession, nonce |-> c.nonce,
     context_hash |-> ContextHash(c.context), wallet_id |-> c.wallet_id,
     action |-> c.action, executor |-> c.executor]

\* how the caller's executor ends once it is started
ExecutorEnds == {"returned", "raised"}

\* execute_with_scope(scope=scope, context=..., wallet_id=..., action=...,
\* executor=..., capability=..., session=..., nonce=...) from entry to return
ExecCall ==
    /\ ~lastCall.active
    /\ BagCardinality(executions) < MaxExecutions
    /\ \E c \in ExecContexts, w \in Wallets, a \in ExecActions,
          k \in {NoCap, cap, ForeignCap},
          sn \in {<<FALSE, "None">>} \cup {<<TRUE, n>> : n \in ExecNonces},
          ends \in ExecutorEnds :
        LET o == GuardOutcome(scope, c, w, a, k, session, used_nonces, sn[1], sn[2], now)
            call == [active |-> TRUE, context |-> c, wallet_id |-> w, action |-> a,
                     capability |-> k, withSession |-> sn[1], nonce |-> sn[2],
                     at |-> now, outcome |-> o,
                     executor |-> IF o = "OK" THEN ends ELSE "None",
                     ranBefore |-> \E e \in BagToSet(executions) : e.token = k.token,
                     sameBefore |-> FALSE, usedBefore |-> used_nonces]
        IN  /\ lastCall' = [call EXCEPT
                              !.sameBefore =
                                  \E x \in ExecutorEnds :
                                      Execution([call EXCEPT !.executor = x])
                                          \in BagToSet(executions)]
            /\ executions' = IF o = "OK" THEN executions (+) SetToBag({Execution(call)})
                             ELSE executions
            /\ used_nonces' = GuardEffect(scope, c, w, a, k, session, used_nonces,
                                          sn[1], sn[2], now)
            /\ refused' = IF sn[1] /\ GuardChecks(scope, c, w, a, k, now) # "OK"
                          THEN refused \cup {sn[2]} ELSE refused
    /\ UNCHANGED <<now, session, scope, cap>>
    /\ UNCHANGED <<issued, consumed, sessCall>>
    /\ UNCHANGED <<eqcVars, gateVars, concVars, fnVars, storeVars, acctVars>>

\* the caller takes the result or the error
ExecReturn ==
    /\ lastCall.active
    /\ lastCall' = NoCall
    /\ UNCHANGED <<clockVars, session, scope, cap, executions>>
    /\ UNCHANGED <<eqcVars, gateVars, concVars, fnVars, storeVars, sessVars, acctVars>>

\* time passes between two calls
ExecTick ==
    /\ ~lastCall.active
    /\ now < MaxTime
    /\ now' = now + 1
    /\ UNCHANGED <<used_nonces, execVars, eqcVars, gateVars, concVars, fnVars, storeVars,
                   sessVars, acctVars>>

NextExec == ExecCall \/ ExecReturn \/ ExecTick

SpecExec == InitExec /\ [][NextExec]_vars

\* C5 as stated: once the executor has run for a scope and capability, every
\* later execute_with_scope presenting the same scope and capability fails,
\* also without session and nonce.
C5_CapabilityIsSingleUse ==
    (lastCall.active /\ lastCall.ranBefore) => lastCall.outcome # "OK"

\* C6 as stated: a call repeating a successful call's scope, capability,
\* session and nonce (and context, wallet and action) fails with NONCE_REPLAY.
C6_ReplayIsNonceReplay ==
    (lastCall.active /\ lastCall.withSession /\ lastCall.sameBefore) =>
        lastCall.outcome = "NONCE_REPLAY"

\* C6 amended: a call repeating a successful call's scope, capability,
\* session and nonce never succeeds and the executor is not invoked again; it
\* fails with NONCE_REPLAY whenever scope, capability and session are all
\* still live at the time of the second call, and with the error of the
\* earlier check otherwise.
C6_ReplayNeverRuns ==
    /\ (lastCall.active /\ lastCall.withSession /\ lastCall.sameBefore) =>
         /\ lastCall.outcome # "OK"
         /\ (/\ lastCall.at <= scope.expires_at
             /\ (cap.ttl_seconds = NoInt \/ lastCall.at <= cap.issued_at + cap.ttl_seconds[1])
             /\ lastCall.at <= session.expires_at) => lastCall.outcome = "NONCE_REPLAY"
    /\ \A e \in BagToSet(executions) : e.withSession => CopiesIn(e, executions) = 1

\* the replay was refused as a replay
C6_Witness ==
    /\ lastCall.active /\ lastCall.withSession /\ lastCall.sameBefore
    /\ lastCall.outcome = "NONCE_REPLAY"

\* the call presents a context or a wallet other than the scope's
Altered(c) ==
    \/ ContextHash(c.context) # scope.context_hash
    \/ c.wallet_id # scope.wallet_id

\* C7 as stated: a call whose context fingerprint or wallet_id differs from
\* the scope's fails with SCOPE_MISMATCH.
C7_AlteredIsScopeMismatch ==
    (lastCall.active /\ Altered(lastCall)) => lastCall.outcome = "SCOPE_MISMATCH"

\* C7 amended: a call whose context fingerprint or wallet_id differs from the
\* scope's never runs the executor; it fails with SCOPE_MISMATCH whenever the
\* scope is active at the time of the call, and with SCOPE_NOT_ACTIVE, the
\* earlier check, once the scope has expired.
C7_AlteredNeverRuns ==
    /\ (lastCall.active /\ Altered(lastCall)) =>
         /\ lastCall.outcome =
              (IF lastCall.at <= scope.expires_at THEN "SCOPE_MISMATCH" ELSE "SCOPE_NOT_ACTIVE")
         /\ used_nonces = lastCall.usedBefore
    /\ \A e \in BagToSet(executions) :
         e.context_hash = scope.context_hash /\ e.wallet_id = scope.wallet_id

\* an altered context alone was refused while scope and capability were live
C7_Witness ==
    /\ lastCall.active
    /\ lastCall.context = ExecContextB /\ lastCall.wallet_id = scope.wallet_id
    /\ lastCall.capability = cap /\ lastCall.action = "SEND"
    /\ lastCall.outcome = "SCOPE_MISMATCH"

-----------------------------------------------------------------------------
(* SpecConc: threads sharing one session, scope and capability each make one  *)
(* call, to session.consume_nonce or to execute_with_scope, and interleave at *)
(* the statements of consume_nonce, which takes no lock                       *)

ConcEntries == {"consume_nonce", "execute_with_scope"}

InitConc ==
    /\ ClockIdle /\ EqcIdle /\ EngIdle /\ FnIdle /\ StoreIdle /\ SessIdle /\ AcctIdle /\ GateIdle
    /\ scope = BindScope(AllowDecision(ExecContextA), "w1", "send", 2, 0)
    /\ cap = IssueRuntimeCapability("token-1", ScopeHash(scope), NoInt, 0)
    /\ \E ttl \in SessionTtls : session = WSQKSession(0, ttl)
    /\ lastCall = NoCall
    /\ executions = EmptyBag
    /\ tpc = [t \in Threads |-> "idle"]
    /\ tcall = [t \in Threads |-> [entry |-> "None", nonce |-> "None"]]
    /\ tout = [t \in Threads |-> "None"]
    /\ execCount = [n \in ExecNonces |-> 0]

ConcFrame == UNCHANGED <<now, execVars, eqcVars, gateVars, fnVars, storeVars, sessVars, acctVars>>

\* the thread raises kind to its caller
ConcRaise(t, kind) ==
    /\ tpc' = [tpc EXCEPT ![t] = "done"]
    /\ tout' = [tout EXCEPT ![t] = kind]

\* a thread enters session.consume_nonce(nonce, scope_hash=scope.scope_hash())
\* or execute_with_scope(..., session=session, nonce=nonce)
ConcCall(t) ==
    /\ tpc[t] = "idle"
    /\ \E e \in ConcEntries, n \in ExecNonces :
        /\ tcall' = [tcall EXCEPT ![t] = [entry |-> e, nonce |-> n]]
        /\ tpc' = [tpc EXCEPT ![t] = IF e = "execute_with_scope" THEN "guard" ELSE "assert"]
    /\ UNCHANGED <<used_nonces, tout, execCount>>
    /\ ConcFrame

\* execute_with_scope: checks 1-4 on the scope's own context, wallet and action
ConcGuard(t) ==
    /\ tpc[t] = "guard"
    /\ LET o == GuardChecks(scope, ExecContextA, "w1", "SEND", cap, now)
       IN  IF o = "OK"
           THEN /\ tpc' = [tpc EXCEPT ![t] = "assert"]
                /\ UNCHANGED tout
           ELSE ConcRaise(t, o)
    /\ UNCHANGED <<used_nonces, tcall, execCount>>
    /\ ConcFrame

\* consume_nonce: self.assert_active(now)
ConcAssertActive(t) ==
    /\ tpc[t] = "assert"
    /\ IF SessionIsActive(session, now)
       THEN /\ tpc' = [tpc EXCEPT ![t] = "test"]
            /\ UNCHANGED tout
       ELSE ConcRaise(t, "SESSION_NOT_ACTIVE")
    /\ UNCHANGED <<used_nonces, tcall, execCount>>
    /\ ConcFrame

\* consume_nonce: if key in self.used_nonces: raise
ConcTest(t) ==
    /\ tpc[t] = "test"
    /\ IF NonceUsed(used_nonces, NonceKey(ScopeHash(scope), tcall[t].nonce))
       THEN ConcRaise(t, "NONCE_REPLAY")
       ELSE /\ tpc' = [tpc EXCEPT ![t] = "add"]
            /\ UNCHANGED tout
    /\ UNCHANGED <<used_nonces, tcall, execCount>>
    /\ ConcFrame

\* consume_nonce: self.used_nonces.add(key), then return
ConcAdd(t) ==
    /\ tpc[t] = "add"
    /\ used_nonces' = used_nonces \cup {NonceKey(ScopeHash(scope), tcall[t].nonce)}
    /\ IF tcall[t].entry = "execute_with_scope"
       THEN /\ tpc' = [tpc EXCEPT ![t] = "run"]
            /\ UNCHANGED tout
       ELSE /\ tpc' = [tpc EXCEPT ![t] = "done"]
            /\ tout' = [tout EXCEPT ![t] = "OK"]
    /\ UNCHANGED <<tcall, execCount>>
    /\ ConcFrame

\* execute_with_scope: the executor is invoked and its result returned
ConcRun(t) ==
    /\ tpc[t] = "run"
    /\ execCount' = [execCount EXCEPT ![tcall[t].nonce] = @ + 1]
    /\ tpc' = [tpc EXCEPT ![t] = "done"]
    /\ tout' = [tout EXCEPT ![t] = "OK"]
    /\ UNCHANGED <<used_nonces, tcall>>
    /\ ConcFrame

\* time passes while calls are in flight
ConcTick ==
    /\ now < MaxTime
    /\ now' = now + 1
    /\ UNCHANGED <<used_nonces, execVars, eqcVars, gateVars, concVars, fnVars, storeVars,
                   sessVars, acctVars>>

NextConc ==
    \/ \E t \in Threads :
        \/ ConcCall(t) \/ ConcGuard(t) \/ ConcAssertActive(t)
        \/ ConcTest(t) \/ ConcAdd(t) \/ ConcRun(t)
    \/ ConcTick

SpecConc == InitConc /\ [][NextConc]_vars

\* C8 as stated: of two concurrent consume_nonce calls with the same
\* (scope_fingerprint, nonce) at most one succeeds, as in some sequential
\* order of the two calls.
C8_ConsumeLinearizable ==
    \A t1, t2 \in Threads :
        (/\ t1 # t2
         /\ tcall[t1].entry = "consume_nonce" /\ tcall[t2].entry = "consume_nonce"
         /\ tcall[t1].nonce = tcall[t2].nonce
         /\ tpc[t1] = "done" /\ tpc[t2] = "done")
        => ~(tout[t1] = "OK" /\ tout[t2] = "OK")

\* C9 as stated: of concurrent execute_with_scope callers sharing session,
\* scope fingerprint and nonce at most one succeeds, and the executor runs at
\* most once for that nonce.
C9_OneConcurrentExecution ==
    /\ \A n \in ExecNonces : execCount[n] <= 1
    /\ \A t1, t2 \in Threads :
        (/\ t1 # t2
         /\ tcall[t1].entry = "execute_with_scope" /\ tcall[t2].entry = "execute_with_scope"
         /\ tcall[t1].nonce = tcall[t2].nonce
         /\ tpc[t1] = "done" /\ tpc[t2] = "done")
        => ~(tout[t1] = "OK" /\ tout[t2] = "OK")

-----------------------------------------------------------------------------
(* Hard invariants of EQCEngine.decide, checked under SpecEqc *)

BrowserSpellings == {"browser", "Browser", "BROWSER"}
ExtensionSpellings == {"extension", "Extension", "EXTENSION"}
MintRedeemSpellings == {"mint", "Mint", "MINT", "redeem", "Redeem", "REDEEM"}
DigiDollarSpellings == {"digidollar", "DigiDollar", "DIGIDOLLAR", "dd", "DD", "Dd"}

\* C11: a context whose device type is browser or extension, in any case,
\* is decided DENY with the single reason BROWSER_CONTEXT_BLOCKED or
\* EXTENSION_CONTEXT_BLOCKED, whatever the action, the base verdict and the
\* pack verdicts are.
C11_HostileRuntimeDenied ==
    eqcCall.called =>
        /\ eqcCall.context.device_type \in BrowserSpellings =>
              eqcOut.verdict = Verdict("DENY", <<"BROWSER_CONTEXT_BLOCKED">>, NoStepUp)
        /\ eqcCall.context.device_type \in ExtensionSpellings =>
              eqcOut.verdict = Verdict("DENY", <<"EXTENSION_CONTEXT_BLOCKED">>, NoStepUp)

\* a capitalised Browser minting DigiDollar under an ALLOW policy and an ALLOW
\* pack was denied
C11_Witness ==
    /\ eqcCall.called
    /\ eqcCall.context.device_type = "Browser"
    /\ eqcCall.context.action = "Mint" /\ eqcCall.context.asset = "DigiDollar"
    /\ eqcCall.base.type = "ALLOW"
    /\ eqcCall.packs # <<>> /\ eqcCall.packs[1].type = "ALLOW"
    /\ eqcOut.verdict.type = "DENY"

\* the decision of the DigiDollar step-up invariant
MintRedeemStepUp(decision) ==
    decision.verdict = Verdict("STEP_UP", <<"MINT_REDEEM_REQUIRES_STEP_UP">>,
                               StepUp(<<"confirm_user_intent">>))

\* C12 as stated: every mint or redeem of digidollar / dd is decided STEP_UP
\* with MINT_REDEEM_REQUIRES_STEP_UP and requirements confirm_user_intent.
C12_MintRedeemAlwaysStepUp ==
    (/\ eqcCall.called
     /\ eqcCall.context.action \in MintRedeemSpellings
     /\ eqcCall.context.asset \in DigiDollarSpellings) => MintRedeemStepUp(eqcOut)

\* C12 amended: a mint or redeem of digidollar / dd from a device that is
\* neither browser nor extension is decided STEP_UP with
\* MINT_REDEEM_REQUIRES_STEP_UP and requirements confirm_user_intent, whatever
\* the base verdict and the pack verdicts are; from a browser or an extension
\* it is decided DENY, the earlier invariant.
C12_MintRedeemStepUpOffHostile ==
    (/\ eqcCall.called
     /\ eqcCall.context.action \in MintRedeemSpellings
     /\ eqcCall.context.asset \in DigiDollarSpellings) =>
        IF eqcCall.context.device_type \in BrowserSpellings \cup ExtensionSpellings
        THEN eqcOut.verdict.type = "DENY"
        ELSE MintRedeemStepUp(eqcOut)

\* a mobile REDEEM of dd was stepped up although policy and pack said DENY
C12_Witness ==
    /\ eqcCall.called
    /\ eqcCall.context.device_type = "mobile"
    /\ eqcCall.context.action = "REDEEM" /\ eqcCall.context.asset = "dd"
    /\ eqcCall.base.type = "DENY"
    /\ eqcCall.packs # <<>> /\ eqcCall.packs[1].type = "DENY"
    /\ MintRedeemStepUp(eqcOut)

-----------------------------------------------------------------------------
(* SpecEngine: one EQCEngine with its PolicyPackRegistry; decide is called    *)
(* again and again, packs are loaded lazily on first use, and packs are       *)
(* enabled and disabled between calls                                          *)

HighValueRef == "core.eqc.policies.packs.high_value_step_up:HighValueStepUpPack"

\* HighValueStepUpPack's default threshold
HighValueThreshold == 10000

\* references a deployment may list in enabled_policy_packs
PackRefs ==
    {" ", "packs.tighten:StepUpSend", "packs.pin:StepUpPin", "packs.quiet:NoOpinion",
     "packs.missing:Pack", HighValueRef}

\* _resolve_pack_ref(ref) finds the module and the attribute
Resolvable(ref) == ref # "packs.missing:Pack"

PackReturned(v) == [raised |-> "None", verdict |-> v]
PackRaised(kind) == [raised |-> kind, verdict |-> NoVerdict]

\* pack.evaluate(context, device_signals=..., tx_signals=...) of the pack a
\* reference resolves to; NoVerdict stands for a pack returning None.
\* HighValueStepUpPack.evaluate accepts the context alone, so the keyword call
\* raises TypeError.
PackEvaluate(ref, c) ==
    CASE ref = "packs.tighten:StepUpSend" ->
            PackReturned(IF Lower(OrEmpty(c.action)) = "send"
                         THEN Verdict("STEP_UP", <<"LARGE_AMOUNT">>,
                                      StepUp(<<"confirm_user_intent">>))
                         ELSE Verdict("ALLOW", <<"POLICY_RULE_MATCH">>, NoStepUp))
      [] ref = "packs.pin:StepUpPin" ->
            PackReturned(Verdict("STEP_UP", <<"POLICY_RULE_MATCH">>, StepUp(<<"pin">>)))
      [] ref = "packs.quiet:NoOpinion" -> PackReturned(NoVerdict)
      [] ref = HighValueRef -> PackRaised("TypeError")
      [] OTHER -> PackRaised("TypeError")

\* self._policy.evaluate(context, ...) of the policy the engine was built with
PolicyKinds == {"allows", "denies"}
BasePolicy(kind, c) ==
    IF kind = "allows" THEN Verdict("ALLOW", <<"POLICY_RULE_MATCH">>, NoStepUp)
    ELSE Verdict("DENY", <<"POLICY_RULE_MATCH">>, NoStepUp)

\* a pack loaded during this call is not evaluated until the next call
\* (mutant of RegistryEvaluate)
RECURSIVE RegistryEvaluateSkipsFresh(_, _, _, _)
RegistryEvaluateSkipsFresh(enabled, loaded, acc, c) ==
    IF enabled = <<>> THEN [loaded |-> loaded, verdicts |-> acc, raised |-> "None"]
    ELSE LET ref == Strip(Head(enabled))
         IN  IF ref = "" THEN RegistryEvaluateSkipsFresh(Tail(enabled), loaded, acc, c)
             ELSE IF ref \notin loaded /\ ~Resolvable(ref)
                  THEN [loaded |-> loaded, verdicts |-> acc, raised |-> "ImportError"]
             ELSE IF ref \notin loaded
                  THEN RegistryEvaluateSkipsFresh(Tail(enabled), loaded \cup {ref}, acc, c)
             ELSE LET out == PackEvaluate(ref, c)
                  IN  IF out.raised # "None"
                      THEN [loaded |-> loaded, verdicts |-> acc, raised |-> out.raised]
                      ELSE RegistryEvaluateSkipsFresh(Tail(enabled), loaded,
                               IF out.verdict = NoVerdict THEN acc
                               ELSE Append(acc, out.verdict), c)

\* PolicyPackRegistry.evaluate(context, enabled=..., ...): loaded is the key
\* set of self._packs, acc the verdicts collected so far
RECURSIVE RegistryEvaluate(_, _, _, _)
RegistryEvaluate(enabled, loaded, acc, c) ==
    IF enabled = <<>> THEN [loaded |-> loaded, verdicts |-> acc, raised |-> "None"]
    ELSE LET ref == Strip(Head(enabled))
         IN  IF ref = "" THEN RegistryEvaluate(Tail(enabled), loaded, acc, c)
             ELSE IF ref \notin loaded /\ ~Resolvable(ref)
                  THEN [loaded |-> loaded, verdicts |-> acc, raised |-> "ImportError"]
             ELSE LET out == PackEvaluate(ref, c)
                  IN  IF out.raised # "None"
                      THEN [loaded |-> loaded \cup {ref}, verdicts |-> acc,
                            raised |-> out.raised]
                      ELSE RegistryEvaluate(Tail(enabled), loaded \cup {ref},
                               IF out.verdict = NoVerdict THEN acc
                               ELSE Append(acc, out.verdict), c)

\* whether decide returns from a hard invariant, before any collaborator runs
HardInvariant(c) == Decide(c, NoVerdict, <<>>).trace = <<>>

EngContexts ==
    {EQCContext("send", "DGB", <<1>>, "DGB1-test", "mobile", "ios", "mainnet", "user-1", 0, <<>>),
     EQCContext("send", "DGB", <<HighValueThreshold>>, "DGB1-test", "mobile", "ios", "mainnet",
                "user-1", 0, <<>>),
     EQCContext("Mint", "DigiDollar", <<1>>, "DGB1-test", "mobile", "ios", "mainnet", "user-1",
                0, <<>>)}

\* EQCEngine(policy=..., enabled_policy_packs=[...]) with a fresh registry
InitEngine ==
    /\ ClockIdle /\ EqcIdle /\ FnIdle /\ StoreIdle
    /\ SessIdle /\ AcctIdle /\ GateIdle /\ ExecIdle /\ ConcIdle
    /\ \E kind \in PolicyKinds, enabled \in SeqsUpTo(PackRefs, MaxPacks) :
        engine = [policy |-> kind, enabled |-> enabled, loaded |-> {}]
    /\ engCall = NoEngCall
    /\ engSeen = {}

EngFrame ==
    UNCHANGED <<mergeIn, mergeOut, eqcCall, eqcOut, clockVars, gateVars, execVars, concVars,
                fnVars, storeVars, sessVars, acctVars>>

\* engine.decide(context), from entry to return or raise
EngDecide ==
    /\ ~engCall.active
    /\ \E c \in EngContexts :
        LET r == IF HardInvariant(c)
                 THEN [loaded |-> engine.loaded, verdicts |-> <<>>, raised |-> "None"]
                 ELSE RegistryEvaluate(engine.enabled, engine.loaded, <<>>, c)
            call == [active |-> TRUE, context |-> c, raised |-> r.raised,
                     decision |-> IF r.raised # "None" THEN NoDecision
                                  ELSE Decide(c, BasePolicy(engine.policy, c), r.verdicts),
                     loadedBefore |-> engine.loaded]
        IN  /\ engCall' = call
            /\ engine' = [engine EXCEPT !.loaded = r.loaded]
            /\ engSeen' = IF \E e \in engSeen : e.context = c THEN engSeen
                          ELSE engSeen \cup {call}
    /\ EngFrame

\* the caller takes the decision or the error
EngReturn ==
    /\ engCall.active
    /\ engCall' = NoEngCall
    /\ UNCHANGED <<engine, engSeen>>
    /\ EngFrame

\* the name is appended without looking (mutant of EnablePolicyPack)
EnablePolicyPackAlways(enabled, name) == Append(enabled, name)

\* enable_policy_pack: if name not in self._enabled_policy_packs: append(name)
EnablePolicyPack(enabled, name) ==
    IF \E i \in 1..Len(enabled) : enabled[i] = name THEN enabled ELSE Append(enabled, name)

\* disable_policy_pack: [n for n in self._enabled_policy_packs if n != name]
DisablePolicyPack(enabled, name) == SelectSeq(enabled, LAMBDA n : n # name)

\* engine.enable_policy_pack(name)
EngEnablePack ==
    /\ ~engCall.active
    /\ Len(engine.enabled) < MaxPacks
    /\ \E name \in PackRefs :
        engine' = [engine EXCEPT !.enabled = EnablePolicyPack(@, name)]
    /\ engSeen' = {}
    /\ UNCHANGED engCall
    /\ EngFrame

\* engine.disable_policy_pack(name)
EngDisablePack ==
    /\ ~engCall.active
    /\ \E name \in PackRefs :
        engine' = [engine EXCEPT !.enabled = DisablePolicyPack(@, name)]
    /\ engSeen' = {}
    /\ UNCHANGED engCall
    /\ EngFrame

NextEngine == EngDecide \/ EngReturn \/ EngEnablePack \/ EngDisablePack

SpecEngine == InitEngine /\ [][NextEngine]_vars

\* C13: under one engine configuration (policy, enabled packs) every decide
\* on a context ends as the first decide on an equal context did: the same
\* error, or the same context hash, verdict type, reasons, step_up and
\* signals, also when the first call loaded a pack the later one finds loaded.
C13_DecideDeterministic ==
    engCall.active =>
        \A e \in engSeen :
            e.context = engCall.context =>
                e.raised = engCall.raised /\ e.decision = engCall.decision

\* the first call loaded the tightening pack, this one found it loaded, and
\* both were stepped up by it
C13_Witness ==
    /\ engCall.active
    /\ "packs.tighten:StepUpSend" \in engCall.loadedBefore
    /\ engCall.decision.verdict.type = "STEP_UP"
    /\ \E e \in engSeen :
        /\ e.context = engCall.context
        /\ "packs.tighten:StepUpSend" \notin e.loadedBefore
        /\ e.decision = engCall.decision

-----------------------------------------------------------------------------
(* Shape of the verdict a decision carries, checked under SpecEqc *)

\* C14 as stated: the verdict of every decision decide returns, from a hard
\* invariant or from the merge, has at least one reason, and has a step_up
\* payload exactly when its type is STEP_UP.
C14_VerdictShape ==
    eqcCall.called =>
        /\ eqcOut.verdict.reasons # <<>>
        /\ eqcOut.verdict.step_up.some <=> (eqcOut.verdict.type = "STEP_UP")

-----------------------------------------------------------------------------
(* Time windows of scope and capability, checked under SpecExec *)

\* C15: execute_with_scope succeeds only at times within
\* [scope.not_before, scope.expires_at], both ends included; at every such
\* time the scope check is not what fails; and once the clock is past
\* expires_at every call fails with SCOPE_NOT_ACTIVE and runs nothing, also
\* with a capability that has no TTL or has not expired.
C15_ScopeWindow ==
    lastCall.active =>
        /\ lastCall.outcome = "OK" =>
              (scope.not_before <= lastCall.at /\ lastCall.at <= scope.expires_at)
        /\ (scope.not_before <= lastCall.at /\ lastCall.at <= scope.expires_at) =>
              lastCall.outcome # "SCOPE_NOT_ACTIVE"
        /\ lastCall.at > scope.expires_at =>
              /\ lastCall.outcome = "SCOPE_NOT_ACTIVE"
              /\ used_nonces = lastCall.usedBefore

\* past the scope's expiry a call with the scope's own context, wallet and
\* action and a capability without TTL was refused
C15_Witness ==
    /\ lastCall.active
    /\ lastCall.at > scope.expires_at
    /\ lastCall.context = ExecContextA /\ lastCall.wallet_id = "w1"
    /\ lastCall.action = "SEND"
    /\ lastCall.capability = cap /\ cap.ttl_seconds = NoInt
    /\ lastCall.outcome = "SCOPE_NOT_ACTIVE"

-----------------------------------------------------------------------------
(* SpecPure: pure functions of the core applied to bounded arguments *)

\* capabilities as the dataclass admits them: token and scope_hash may be
\* empty or None
CapTokens == {"", "None", "tok"}
CapScopeHashes == {"", "scope-A"}
CapTimes == 0..MaxTime
CapTtlValues == {NoInt} \cup {<<k>> : k \in CapTimes}
Capabilities ==
    {RuntimeCapability(tk, sh, ia, ttl) :
        tk \in CapTokens, sh \in CapScopeHashes, ia \in CapTimes, ttl \in CapTtlValues}

InitPure ==
    /\ ClockIdle /\ EqcIdle /\ EngIdle /\ FnIdle /\ StoreIdle /\ SessIdle /\ AcctIdle
    /\ GateIdle /\ ExecIdle /\ ConcIdle

PureFrame == UNCHANGED <<clockVars, eqcVars, gateVars, execVars, concVars, storeVars,
                         sessVars, acctVars>>

\* capability.is_expired(now=t) and capability.assert_valid(now=t)
CapAssertValidCall ==
    /\ FnIdle
    /\ \E c \in Capabilities, t \in 0..(2 * MaxTime) :
        fnCall' = [fn |-> "assert_valid", args |-> <<c, t>>,
                   result |-> [expired |-> IsExpired(c, t), valid |-> CapValid(c, t)]]
    /\ PureFrame

\* snapshots for fingerprinting: one send, with each shape of extra
FpExtras ==
    {<<>>,
     << <<Py("str", "tags"), Py("list", "1")>> >>,
     << <<Py("str", "tags"), Py("tuple", "1")>> >>,
     << <<Py("str", "n"), Py("int", "1")>> >>,
     << <<Py("str", "n"), Py("bool", "True")>> >>,
     << <<Py("str", "1"), Py("str", "x")>> >>,
     << <<Py("int", "1"), Py("str", "x")>> >>}
FpContexts ==
    {EQCContext("send", "DGB", <<1>>, "DGB1-A", "mobile", "ios", "mainnet", "user-1", 0, e) :
        e \in FpExtras}

\* the snapshots that differ from c in at most one field
FpVariants(c) ==
    {c, [c EXCEPT !.action = "sign"], [c EXCEPT !.asset = "DigiDollar"],
     [c EXCEPT !.amount = NoInt], [c EXCEPT !.amount = <<2>>],
     [c EXCEPT !.recipient = "DGB1-B"], [c EXCEPT !.device_type = "browser"],
     [c EXCEPT !.os = "android"], [c EXCEPT !.network = "testnet"],
     [c EXCEPT !.user_id = "user-2"], [c EXCEPT !.timestamp = 1]}
        \cup {[c EXCEPT !.extra = e] : e \in FpExtras}

\* a.context_hash() and b.context_hash()
ContextHashCall ==
    /\ FnIdle
    /\ \E a \in FpContexts : \E b \in FpVariants(a) :
        fnCall' = [fn |-> "context_hash", args |-> <<a, b>>,
                   result |-> <<ContextHash(a), ContextHash(b)>>]
    /\ PureFrame

\* snapshots on each path of decide: policy path, browser, extension, mint
FpDecideContexts ==
    {[c EXCEPT !.device_type = d, !.action = a[1], !.asset = a[2]] :
        c \in FpContexts, d \in {"mobile", "Browser", "extension"},
        a \in {<<"send", "DGB">>, <<"mint", "DigiDollar">>}}

\* EQCEngine.decide(c) with the base policy's verdict drawn freely
DecideHashCall ==
    /\ FnIdle
    /\ \E c \in FpDecideContexts, base \in GateBaseVerdicts :
        fnCall' = [fn |-> "decide", args |-> <<c>>, result |-> Decide(c, base, <<>>)]
    /\ PureFrame

\* WalletState with the dataclass defaults for the fields the sync leaves alone
WalletState(receive_index, change_index) ==
    [network |-> "mainnet", coin_type |-> 20, account |-> 0,
     receive_index |-> receive_index, change_index |-> change_index, gap_limit |-> 20]

\* the index follows the last used one even backwards (mutant of NextIndex)
NextIndexFollowsLastUsed(current, last_used) ==
    IF last_used = NoInt THEN current ELSE last_used[1] + 1

\* _next_index
NextIndex(current, last_used) ==
    IF last_used = NoInt THEN current
    ELSE LET candidate == last_used[1] + 1
         IN  IF current >= candidate THEN current ELSE candidate

\* apply_sync_result: the state itself when nothing moves, else a new state
ApplySyncResult(state, result) ==
    LET new_receive == NextIndex(state.receive_index, result.receive_last_used)
        new_change == NextIndex(state.change_index, result.change_last_used)
    IN  IF new_receive = state.receive_index /\ new_change = state.change_index
        THEN state
        ELSE [state EXCEPT !.receive_index = new_receive, !.change_index = new_change]

WalletStates == {WalletState(r, c) : r \in 0..MaxIndex, c \in 0..MaxIndex}
LastUsedValues == {NoInt} \cup {<<k>> : k \in -1..MaxIndex}
SyncResults ==
    {[receive_last_used |-> r, change_last_used |-> c] :
        r \in LastUsedValues, c \in LastUsedValues}

\* s1 = apply_sync_result(state, result); s2 = apply_sync_result(s1, result)
ApplySyncCall ==
    /\ FnIdle
    /\ \E state \in WalletStates, res \in SyncResults :
        fnCall' = [fn |-> "apply_sync_result", args |-> <<state, res>>,
                   result |-> <<ApplySyncResult(state, res),
                                ApplySyncResult(ApplySyncResult(state, res), res)>>]
    /\ PureFrame

\* WSQKScope.from_ttl: a scope valid from now to now + ttl_seconds, refused
\* with ValueError unless ttl_seconds > 0
FromTtl(wallet_id, action, context_hash, ttl_seconds, t) ==
    IF ttl_seconds <= 0
    THEN [raised |-> "ValueError", scope |-> NoScope]
    ELSE [raised |-> "None",
          scope |-> WSQKScope(wallet_id, action, context_hash, t, t + ttl_seconds)]

\* lifetimes a caller asks for: already over, empty, one second
BindTtls == {-1, 0, 1}

FromTtlCall ==
    /\ FnIdle
    /\ \E ttl \in BindTtls, t \in 0..MaxTime :
        fnCall' = [fn |-> "from_ttl", args |-> <<ttl, t>>,
                   result |-> FromTtl("w1", "send", ContextHash(ExecContextA), ttl, t)]
    /\ PureFrame

\* decisions handed to the binding: one that allows, one that denies
BindDecisions ==
    {AllowDecision(ExecContextA),
     Decide(ExecContextA, Verdict("DENY", <<"POLICY_RULE_MATCH">>, NoStepUp), <<>>)}

\* bind_scope_from_eqc(decision, wallet_id, action, ttl_seconds) at time t
BindScopeCall ==
    /\ FnIdle
    /\ \E d \in BindDecisions, ttl \in BindTtls, t \in 0..MaxTime :
        fnCall' = [fn |-> "bind_scope_from_eqc", args |-> <<ttl, t, d>>,
                   result |-> IF BindAllowed(d)
                              THEN [raised |-> "None",
                                    scope |-> BindScope(d, "w1", "send", ttl, t)]
                              ELSE [raised |-> "WSQKBindError", scope |-> NoScope]]
    /\ PureFrame

\* references and lists handed to enable_policy_pack and disable_policy_pack:
\* lists as the constructor or EQC_POLICY_PACKS leaves them, repeats included
EnableRefs == {"packs.tighten:StepUpSend", "packs.pin:StepUpPin", "packs.quiet:NoOpinion"}
EnabledLists == SeqsUpTo(EnableRefs, MaxEnabled)

\* engine.enable_policy_pack(name), once and then once more
EnablePackCall ==
    /\ FnIdle
    /\ \E enabled \in EnabledLists, name \in EnableRefs :
        fnCall' = [fn |-> "enable_policy_pack", args |-> <<enabled, name>>,
                   result |-> <<EnablePolicyPack(enabled, name),
                                EnablePolicyPack(EnablePolicyPack(enabled, name), name)>>]
    /\ PureFrame

\* engine.disable_policy_pack(name), once and then once more
DisablePackCall ==
    /\ FnIdle
    /\ \E enabled \in EnabledLists, name \in EnableRefs :
        fnCall' = [fn |-> "disable_policy_pack", args |-> <<enabled, name>>,
                   result |-> <<DisablePolicyPack(enabled, name),
                                DisablePolicyPack(DisablePolicyPack(enabled, name), name)>>]
    /\ PureFrame

\* the caller takes the result
FnReturn ==
    /\ ~FnIdle
    /\ fnCall' = NoFnCall
    /\ PureFrame

NextPure ==
    \/ CapAssertValidCall \/ ContextHashCall \/ DecideHashCall \/ ApplySyncCall
    \/ FromTtlCall \/ BindScopeCall \/ EnablePackCall \/ DisablePackCall \/ FnReturn

SpecPure == InitPure /\ [][NextPure]_vars

\* C16: a capability with a TTL is expired exactly at times later than
\* issued_at + ttl_seconds, so it is still valid at issued_at + ttl_seconds;
\* one without TTL never expires; and assert_valid fails exactly when the
\* token is empty or missing, the scope hash is empty, or the capability is
\* expired.
C16_CapabilityValidity ==
    fnCall.fn = "assert_valid" =>
        LET c == fnCall.args[1]
            t == fnCall.args[2]
        IN  /\ fnCall.result.expired <=>
                  (c.ttl_seconds # NoInt /\ t > c.issued_at + c.ttl_seconds[1])
            /\ ~fnCall.result.valid <=>
                  (c.token \in {"", "None"} \/ c.scope_hash = "" \/ fnCall.result.expired)

\* a capability with a positive TTL passed assert_valid at its last second
C16_Witness ==
    /\ fnCall.fn = "assert_valid"
    /\ fnCall.args[1].ttl_seconds # NoInt
    /\ fnCall.args[1].ttl_seconds[1] > 0
    /\ fnCall.args[2] = fnCall.args[1].issued_at + fnCall.args[1].ttl_seconds[1]
    /\ fnCall.result.valid /\ ~fnCall.result.expired

-----------------------------------------------------------------------------
(* The capability check of execute_with_scope, checked under SpecExec *)

\* the capability presented is missing, expired at the time of the call, or
\* issued for another scope hash
CapabilityUnfit(call) ==
    \/ call.capability = NoCap
    \/ /\ call.capability.ttl_seconds # NoInt
       /\ call.at > call.capability.issued_at + call.capability.ttl_seconds[1]
    \/ call.capability.scope_hash # ScopeHash(scope)

\* C17: execute_with_scope runs the executor only when a capability is
\* supplied, is valid at the time of the call and carries the scope's own
\* hash; a missing, an expired or a foreign capability makes the call fail,
\* with nothing executed and no nonce consumed.
C17_CapabilityRequired ==
    /\ lastCall.active =>
         /\ lastCall.outcome = "OK" => ~CapabilityUnfit(lastCall)
         /\ CapabilityUnfit(lastCall) =>
              /\ lastCall.outcome \notin {"OK", "NONCE_REPLAY"}
              /\ used_nonces = lastCall.usedBefore
    /\ \A e \in BagToSet(executions) : e.token = cap.token

\* with scope, context, wallet and action in order, the capability of
\* another scope was refused
C17_Witness ==
    /\ lastCall.active
    /\ lastCall.at <= scope.expires_at
    /\ lastCall.context = ExecContextA /\ lastCall.wallet_id = "w1"
    /\ lastCall.action = "SEND"
    /\ lastCall.capability = ForeignCap
    /\ lastCall.outcome = "CAPABILITY_INVALID"

-----------------------------------------------------------------------------
(* The happy path and the errors of execute_signing_intent, checked under Spec *)

\* how often a collaborator was invoked during the call
Count(log, e) == Cardinality({i \in 1..Len(log) : log[i] = e})

\* scope and capability are both live when execute_with_scope is reached
GuardWillPass ==
    /\ gscope.not_before <= now /\ now <= gscope.expires_at
    /\ now <= gcap.issued_at + gcap.ttl_seconds[1]

C19_OnlyExecutionBlocked ==
    (gcall # NoGateCall /\ gpc = "done" /\ gout.raised # "None") =>
        gout.raised = "ExecutionBlocked"

-----------------------------------------------------------------------------
(* execute_intent, checked under Spec *)

SendLikeSpellings == {"send", "Send", "SEND", "transfer", "Transfer", "TRANSFER"}
SigningSpellings ==
    SendLikeSpellings \cup {"sign", "Sign", "mint", "Mint", "message_sign"}

IdsMissing(i) == i.wallet_id \in {"", "None"} \/ i.account_id \in {"", "None"}
FieldsMissing(i) == i.to_address \in {"", "None"} \/ i.amount_minor = NoInt

\* the call ended inside execute_intent, before any step of the gate
FailedBeforeGate(kind) ==
    gpc = "done" /\ glog = <<>> /\ gcall = NoGateCall /\ gout.raised = kind

\* C20: execute_intent reaches the executor only through
\* execute_signing_intent. An intent without wallet_id or account_id fails
\* with ValueError before any gate step; otherwise a send or transfer without
\* to_address or amount_minor fails with ValueError before any gate step, any
\* other signing-like action enters the gate at its first step, and an action
\* that is not signing-like fails with ExecutionBlocked. No failing call has
\* invoked the executor, and an executor run was preceded by the EQC decision
\* and the Shield evaluation.
C20_IntentRoutedThroughGate ==
    icall.active =>
        /\ IdsMissing(icall) => FailedBeforeGate("ValueError")
        /\ (~IdsMissing(icall) /\ icall.action \in SendLikeSpellings /\ FieldsMissing(icall))
              => FailedBeforeGate("ValueError")
        /\ (~IdsMissing(icall) /\ icall.action \notin SigningSpellings)
              => FailedBeforeGate("ExecutionBlocked")
        /\ (/\ ~IdsMissing(icall) /\ icall.action \in SigningSpellings
            /\ ~(icall.action \in SendLikeSpellings /\ FieldsMissing(icall))) =>
              /\ gcall.wallet_id = icall.wallet_id /\ gcall.action = icall.action
              /\ gpc = "done" => Contains(glog, "eqc.decide")
        /\ Contains(glog, "executor") =>
              /\ Contains(glog, "eqc.decide") /\ Contains(glog, "shield.evaluate")
              /\ gdecision.verdict.type = "ALLOW" /\ ~Truthy(gshield.blocked)
        /\ (gpc = "done" /\ gout.raised # "None") => ~Contains(glog, "executor")

\* a complete Send went through the gate and the executor's value came back
C20_Witness ==
    /\ icall.active /\ icall.action = "Send"
    /\ icall.to_address = "DGB1-A" /\ icall.amount_minor = <<0>>
    /\ gpc = "done"
    /\ Contains(glog, "eqc.decide") /\ Contains(glog, "shield.evaluate")
    /\ Contains(glog, "executor")
    /\ gout = Returned("executor_result")

-----------------------------------------------------------------------------
-----------------------------------------------------------------------------
\* Python's == on two values: equal type and content, and a bool equals the
\* int 1 or 0
PyEq(x, y) ==
    \/ x = y
    \/ {x, y} \in {{Py("int", "1"), Py("bool", "True")}, {Py("int", "0"), Py("bool", "False")}}

\* Python's == on two snapshots, field by field
FieldsEqual(a, b) ==
    /\ [a EXCEPT !.extra = <<>>] = [b EXCEPT !.extra = <<>>]
    /\ Len(a.extra) = Len(b.extra)
    /\ \A i \in 1..Len(a.extra) :
          i <= Len(b.extra) /\ PyEq(a.extra[i][1], b.extra[i][1])
                            /\ PyEq(a.extra[i][2], b.extra[i][2])

\* two values JSON writes alike: arrays (list or tuple) of the same elements,
\* or the same content of the same type
WrittenAlike(x, y) ==
    /\ x[2] = y[2]
    /\ \/ x[1] = y[1]
       \/ {x[1], y[1]} = {"list", "tuple"}

\* two snapshots whose canonical JSON is the same: equal outside extra, and
\* in extra the same keys up to their string form with values written alike
SerializeAlike(a, b) ==
    /\ [a EXCEPT !.extra = <<>>] = [b EXCEPT !.extra = <<>>]
    /\ Len(a.extra) = Len(b.extra)
    /\ \A i \in 1..Len(a.extra) :
          /\ i <= Len(b.extra)
          /\ a.extra[i][1][2] = b.extra[i][1][2]
          /\ {a.extra[i][1][1], b.extra[i][1][1]} \subseteq {"str", "int"}
          /\ WrittenAlike(a.extra[i][2], b.extra[i][2])

\* the Decision of decide carries the fingerprint of the context it was given
DecisionCarriesFingerprint ==
    fnCall.fn = "decide" => fnCall.result.context_hash = ContextHash(fnCall.args[1])

\* C22 (as stated): two snapshots have equal fingerprints exactly when they
\* are equal in every field, and the Decision returned by decide carries the
\* fingerprint of its context on every path.
C22_FingerprintOfContent ==
    /\ fnCall.fn = "context_hash" =>
          (fnCall.result[1] = fnCall.result[2]
              <=> FieldsEqual(fnCall.args[1], fnCall.args[2]))
    /\ DecisionCarriesFingerprint

\* C22 (amended): two snapshots have equal fingerprints exactly when their
\* canonical JSON is the same: identical snapshots share a fingerprint, a
\* difference in action, device, network, user or timestamp always changes
\* it, and two extra mappings share it exactly when JSON writes them alike
\* (a tuple like a list, an int key like its string, but an int unlike the
\* bool equal to it). The Decision returned by decide carries the
\* fingerprint of its context on every path.
C22_FingerprintOfSerialisation ==
    /\ fnCall.fn = "context_hash" =>
          LET a == fnCall.args[1]
              b == fnCall.args[2]
          IN  /\ fnCall.result[1] = fnCall.result[2] <=> SerializeAlike(a, b)
              /\ a = b => fnCall.result[1] = fnCall.result[2]
              /\ [a EXCEPT !.extra = <<>>] # [b EXCEPT !.extra = <<>>]
                    => fnCall.result[1] # fnCall.result[2]
    /\ DecisionCarriesFingerprint

\* two snapshots that differ only in extra, a tuple against a list of the
\* same elements, were given the same fingerprint
C22_Witness ==
    /\ fnCall.fn = "context_hash"
    /\ fnCall.args[1].extra = << <<Py("str", "tags"), Py("list", "1")>> >>
    /\ fnCall.args[2].extra = << <<Py("str", "tags"), Py("tuple", "1")>> >>
    /\ fnCall.result[1] = fnCall.result[2]

-----------------------------------------------------------------------------
(* SpecStore: WalletStorage and its batches (core/storage) *)

Backends == {"memory", "sqlite"}
StoreValues == {Py("tuple", "1")}

\* _decode(_encode(value)): what the SQLite backend hands back for a value
JsonRoundTrip(v) == IF v[1] = "tuple" THEN Py("list", v[2]) ELSE v

\* the value get(key) returns for a value put under the backend
Stored(backend, v) == IF backend = "sqlite" THEN JsonRoundTrip(v) ELSE v

\* sqlite3 connection: a write outside a transaction opens one implicitly
ConnWrite(s, k, v) == [s EXCEPT !.data[k] = v, !.conn_tx = TRUE]
ConnCommit(s) == [s EXCEPT !.durable = s.data, !.conn_tx = FALSE]
ConnRollback(s) == [s EXCEPT !.data = s.durable, !.conn_tx = FALSE]

\* _MemoryBatch.commit: deletes are applied first, then writes
MemoryCommit(data, b) ==
    [k \in StoreKeys |->
        IF b.writes[k] # PyNone THEN b.writes[k]
        ELSE IF k \in b.deletes THEN PyNone ELSE data[k]]

\* a store as a caller finds it: one key already holds a value
InitialData == [k \in StoreKeys |-> IF k = "x" THEN Py("int", "0") ELSE PyNone]

InitStore ==
    /\ ClockIdle /\ EqcIdle /\ EngIdle /\ FnIdle /\ GateIdle /\ ExecIdle /\ ConcIdle
    /\ SessIdle /\ AcctIdle
    /\ \E be \in Backends :
        store = [backend |-> be, data |-> InitialData, durable |-> InitialData,
                 in_tx |-> FALSE, conn_tx |-> FALSE]
    /\ batches = [b \in BatchIds |-> NoBatch]
    /\ lastOp = NoOp

StoreFrame ==
    UNCHANGED <<clockVars, eqcVars, gateVars, execVars, concVars, fnVars, sessVars, acctVars>>

\* the operation that returned, with the batch as it was when it returned
Op(op, b, wasOpen, raised) == [op |-> op, batch |-> b, wasOpen |-> wasOpen, raised |-> raised]

\* a closed batch keeps nothing but its _closed flag
ClosedBatch == [NoBatch EXCEPT !.state = "closed"]

\* every other open batch has seen a write that is not its own
OthersNotAlone(bs, b) ==
    [c \in BatchIds |-> IF c # b /\ bs[c].state = "open"
                        THEN [bs[c] EXCEPT !.alone = FALSE] ELSE bs[c]]

\* store.begin_batch(); the batches are named in the order they are begun
BeginBatch(b) ==
    /\ batches[b].state = "unused"
    /\ b = "b" => batches["a"].state # "unused"
    /\ IF store.backend = "sqlite" /\ ~store.in_tx /\ store.conn_tx
       THEN \* _begin_tx: BEGIN inside an open transaction
            /\ lastOp' = Op("begin_batch", batches[b], FALSE, "OperationalError")
            /\ UNCHANGED <<store, batches>>
       ELSE /\ store' = IF store.backend = "sqlite"
                        THEN [store EXCEPT !.in_tx = TRUE, !.conn_tx = TRUE]
                        ELSE store
            /\ batches' = [batches EXCEPT
                              ![b] = [NoBatch EXCEPT !.state = "open", !.began = store.data]]
            /\ lastOp' = Op("begin_batch", batches'[b], FALSE, "None")
    /\ StoreFrame

\* batch.put(key, value)
BatchPut(b) ==
    /\ batches[b].state # "unused"
    /\ \E k \in StoreKeys, v \in StoreValues :
        IF batches[b].state = "closed"
        THEN /\ lastOp' = Op("put", batches[b], FALSE, "RuntimeError")
             /\ UNCHANGED <<store, batches>>
        ELSE /\ store' = IF store.backend = "sqlite"
                         THEN ConnWrite(store, k, JsonRoundTrip(v)) ELSE store
             /\ batches' = [OthersNotAlone(batches, b) EXCEPT
                               ![b].writes[k] = IF store.backend = "memory" THEN v ELSE PyNone,
                               ![b].deletes = @ \ {k},
                               ![b].recorded[k] = v]
             /\ lastOp' = Op("put", batches'[b], TRUE, "None")
    /\ StoreFrame

\* batch.delete(key)
BatchDelete(b) ==
    /\ batches[b].state # "unused"
    /\ \E k \in StoreKeys :
        IF batches[b].state = "closed"
        THEN /\ lastOp' = Op("delete", batches[b], FALSE, "RuntimeError")
             /\ UNCHANGED <<store, batches>>
        ELSE /\ store' = IF store.backend = "sqlite"
                         THEN ConnWrite(store, k, PyNone) ELSE store
             /\ batches' = [OthersNotAlone(batches, b) EXCEPT
                               ![b].writes[k] = PyNone,
                               ![b].deletes = IF store.backend = "memory"
                                              THEN @ \cup {k} ELSE @,
                               ![b].recorded[k] = Deleted]
             /\ lastOp' = Op("delete", batches'[b], TRUE, "None")
    /\ StoreFrame

\* batch.commit(): _MemoryBatch.commit, or _SQLiteBatch.commit with _commit_tx
Commit(b) ==
    /\ lastOp' = Op("commit", batches[b], batches[b].state = "open", "None")
    /\ IF batches[b].state = "closed"
       THEN UNCHANGED <<store, batches>>
       ELSE /\ store' =
                IF store.backend = "memory"
                THEN [store EXCEPT !.data = MemoryCommit(store.data, batches[b]),
                                   !.durable = MemoryCommit(store.data, batches[b])]
                ELSE IF store.in_tx THEN [ConnCommit(store) EXCEPT !.in_tx = FALSE]
                ELSE store
            /\ batches' =
                [IF \E k \in StoreKeys : batches[b].recorded[k] # Untouched
                 THEN OthersNotAlone(batches, b) ELSE batches
                    EXCEPT ![b] = ClosedBatch]

\* batch.rollback(): _MemoryBatch.rollback, or _SQLiteBatch.rollback with _rollback_tx
Rollback(b) ==
    /\ lastOp' = Op("rollback", batches[b], batches[b].state = "open", "None")
    /\ IF batches[b].state = "closed"
       THEN UNCHANGED <<store, batches>>
       ELSE /\ store' =
                IF store.backend = "sqlite" /\ store.in_tx
                THEN [ConnRollback(store) EXCEPT !.in_tx = FALSE]
                ELSE store
            /\ batches' = [batches EXCEPT ![b] = ClosedBatch]

BatchCommit(b) == batches[b].state # "unused" /\ Commit(b) /\ StoreFrame

BatchRollback(b) == batches[b].state # "unused" /\ Rollback(b) /\ StoreFrame

\* WalletBatch.__exit__: rollback when the with-block raised, else commit
BatchExit(b) ==
    /\ batches[b].state # "unused"
    /\ \E raised \in BOOLEAN : IF raised THEN Rollback(b) ELSE Commit(b)
    /\ StoreFrame

\* store.put(key, value) and store.delete(key) outside any batch
StoreWrite ==
    /\ \E k \in StoreKeys, v \in StoreValues \cup {PyNone} :
        IF store.backend = "sqlite" /\ store.conn_tx
        THEN \* BEGIN inside an open transaction, raised before the try block
             /\ lastOp' = Op("store_write", NoBatch, FALSE, "OperationalError")
             /\ UNCHANGED <<store, batches>>
        ELSE /\ store' = [store EXCEPT !.data[k] = Stored(store.backend, v),
                                       !.durable = [store.data EXCEPT
                                                       ![k] = Stored(store.backend, v)]]
             /\ batches' = OthersNotAlone(batches, "None")
             /\ lastOp' = Op("store_write", NoBatch, FALSE, "None")
    /\ StoreFrame

NextStore ==
    \/ \E b \in BatchIds :
          \/ BeginBatch(b) \/ BatchPut(b) \/ BatchDelete(b)
          \/ BatchCommit(b) \/ BatchRollback(b) \/ BatchExit(b)
    \/ StoreWrite

SpecStore == InitStore /\ [][NextStore]_vars

\* C23: a batch is atomic on both backends: when commit returns for an open
\* batch, every key the batch put holds the value put (as the backend stores
\* it) and every key it deleted is absent; when rollback returns for an open
\* batch, by a call or at the end of a with-block that raised, and nothing
\* but the batch wrote to the store since it began, the store's contents are
\* those from before the batch began.
C23_BatchAtomic ==
    /\ (lastOp.op = "commit" /\ lastOp.wasOpen) =>
          \A k \in StoreKeys :
              LET r == lastOp.batch.recorded[k]
              IN  /\ r = Deleted => store.data[k] = PyNone
                  /\ r \notin {Deleted, Untouched} =>
                        store.data[k] = Stored(store.backend, r)
    /\ (lastOp.op = "rollback" /\ lastOp.wasOpen /\ lastOp.batch.alone) =>
          store.data = lastOp.batch.began

-----------------------------------------------------------------------------
\* the larger of two integers
Max(a, b) == IF a >= b THEN a ELSE b

\* the index max(current, last_used + 1), or current when last_used is absent
Advanced(current, last_used) ==
    IF last_used = NoInt THEN current ELSE Max(current, last_used[1] + 1)

\* C24: apply_sync_result never moves an index backwards and is idempotent:
\* the new receive_index is max(current, receive_last_used + 1), the new
\* change_index is max(current, change_last_used + 1), an absent last_used
\* leaves its index unchanged, no other field changes, and applying the same
\* result a second time returns the state of the first application.
C24_SyncMonotoneIdempotent ==
    fnCall.fn = "apply_sync_result" =>
        LET state == fnCall.args[1]
            res == fnCall.args[2]
            s1 == fnCall.result[1]
            s2 == fnCall.result[2]
        IN  /\ s1.receive_index = Advanced(state.receive_index, res.receive_last_used)
            /\ s1.change_index = Advanced(state.change_index, res.change_last_used)
            /\ s1.receive_index >= state.receive_index
            /\ s1.change_index >= state.change_index
            /\ res.receive_last_used = NoInt => s1.receive_index = state.receive_index
            /\ res.change_last_used = NoInt => s1.change_index = state.change_index
            /\ s1 = [state EXCEPT !.receive_index = s1.receive_index,
                                  !.change_index = s1.change_index]
            /\ s2 = s1

\* a result behind the receive index and ahead of the change index was applied
C24_Witness ==
    /\ fnCall.fn = "apply_sync_result"
    /\ fnCall.args[1].receive_index = 2 /\ fnCall.args[2].receive_last_used = <<0>>
    /\ fnCall.args[1].change_index = 0 /\ fnCall.args[2].change_last_used = <<1>>
    /\ fnCall.result[1].receive_index = 2 /\ fnCall.result[1].change_index = 2
    /\ fnCall.result[2] = fnCall.result[1]

-----------------------------------------------------------------------------
\* the hard invariant a context trips, by the signal naming it, or "None"
FiredInvariant(c) ==
    IF c.device_type \in BrowserSpellings \cup ExtensionSpellings THEN "HOSTILE_RUNTIME"
    ELSE IF c.action \in MintRedeemSpellings /\ c.asset \in DigiDollarSpellings
         THEN "DD_STEP_UP"
    ELSE "None"

\* the names of the steps of a trace
StepNames(trace) == [i \in 1..Len(trace) |-> trace[i][1]]

-----------------------------------------------------------------------------
\* the strongest kind among the verdicts under DENY > STEP_UP > ALLOW
StrongestKind(vs) ==
    CHOOSE t \in VerdictTypes :
        /\ \E i \in 1..Len(vs) : vs[i].type = t
        /\ \A i \in 1..Len(vs) : Rank(vs[i].type) <= Rank(t)

\* the reasons of the verdicts of kind t among the first n, in encounter order
RECURSIVE ReasonsOfKind(_, _, _)
ReasonsOfKind(vs, t, n) ==
    IF n = 0 THEN <<>>
    ELSE ReasonsOfKind(vs, t, n - 1) \o (IF vs[n].type = t THEN vs[n].reasons ELSE <<>>)

\* the list merged by the call in progress: the argument of _merge_verdicts,
\* or base and pack verdicts of a decide that reached the merge
MergedList ==
    IF mergeIn # <<>> THEN mergeIn
    ELSE IF eqcCall.called /\ eqcOut.trace # <<>> THEN <<eqcCall.base>> \o eqcCall.packs
    ELSE <<>>
MergedVerdict == IF mergeIn # <<>> THEN mergeOut ELSE eqcOut.verdict

\* C26 (as stated): the merged verdict's kind is the strongest kind among the
\* base and pack verdicts, and its reasons are exactly the concatenation, in
\* encounter order, of the reasons of the verdicts of that kind.
C26_MergedReasonsExact ==
    MergedList # <<>> =>
        /\ MergedVerdict.type = StrongestKind(MergedList)
        /\ MergedVerdict.reasons =
              ReasonsOfKind(MergedList, MergedVerdict.type, Len(MergedList))

\* C26 (amended): the merged verdict's kind is the strongest kind among the
\* base and pack verdicts; when a verdict of that kind carries a reason, the
\* merged reasons are exactly the concatenation, in encounter order, of the
\* reasons of the verdicts of that kind and of no other verdict; when none of
\* them carries a reason, the merged verdict carries the engine's single
\* default reason instead of an empty list.
C26_MergedReasonsOrDefault ==
    MergedList # <<>> =>
        LET winning == ReasonsOfKind(MergedList, MergedVerdict.type, Len(MergedList))
        IN  /\ MergedVerdict.type = StrongestKind(MergedList)
            /\ winning # <<>> => MergedVerdict.reasons = winning
            /\ winning = <<>> => MergedVerdict.reasons = <<SafeReason("None")>>

\* two STEP_UP verdicts around a reasoned ALLOW: their reasons, in order,
\* and not the ALLOW's
C26_Witness ==
    /\ Len(mergeIn) = 3
    /\ mergeIn[1].type = "STEP_UP" /\ mergeIn[1].reasons = <<"POLICY_RULE_MATCH">>
    /\ mergeIn[2].type = "ALLOW" /\ mergeIn[2].reasons = <<"LARGE_AMOUNT">>
    /\ mergeIn[3].type = "STEP_UP" /\ mergeIn[3].reasons = <<"LARGE_AMOUNT">>
    /\ mergeOut.type = "STEP_UP"
    /\ mergeOut.reasons = <<"POLICY_RULE_MATCH", "LARGE_AMOUNT">>

-----------------------------------------------------------------------------
\* positions of the STEP_UP verdicts that carry a step_up payload
PayloadPositions(vs) ==
    {i \in 1..Len(vs) : vs[i].type = "STEP_UP" /\ vs[i].step_up.some}

\* C27 (as stated): when the merge winner is STEP_UP, the merged verdict
\* carries the first non-null step_up payload among the STEP_UP verdicts in
\* encounter order, and when none of them carries a payload it carries the
\* default requirements ["confirm_user_intent"].
C27_MergedStepUpPayload ==
    (MergedList # <<>> /\ MergedVerdict.type = "STEP_UP") =>
        LET at == PayloadPositions(MergedList)
        IN  /\ at # {} =>
                MergedVerdict.step_up =
                    MergedList[CHOOSE i \in at : \A j \in at : i <= j].step_up
            /\ at = {} => MergedVerdict.step_up = StepUp(<<"confirm_user_intent">>)

-----------------------------------------------------------------------------
\* the pack references in the sorted order of their strings
SortedRefs ==
    <<" ", HighValueRef, "packs.missing:Pack", "packs.pin:StepUpPin",
      "packs.quiet:NoOpinion", "packs.tighten:StepUpSend">>

\* sorted(enabled): the occurrences of each of the first n sorted references
RECURSIVE SortEnabled(_, _)
SortEnabled(enabled, n) ==
    IF n = 0 THEN <<>>
    ELSE SortEnabled(enabled, n - 1) \o SelectSeq(enabled, LAMBDA r : r = SortedRefs[n])

\* the decision of the call in progress had the packs been evaluated in
\* sorted-reference order
DecisionInSortedOrder ==
    LET r == IF HardInvariant(engCall.context)
             THEN [loaded |-> engCall.loadedBefore, verdicts |-> <<>>, raised |-> "None"]
             ELSE RegistryEvaluate(SortEnabled(engine.enabled, Len(SortedRefs)),
                                   engCall.loadedBefore, <<>>, engCall.context)
    IN  IF r.raised # "None" THEN NoDecision
        ELSE Decide(engCall.context, BasePolicy(engine.policy, engCall.context), r.verdicts)

\* C28 (as stated): the packs are evaluated in the sorted order of their
\* references: whatever the order in which the enabled references are
\* listed, a decide that returns gives the decision (pack verdict kinds in
\* signals.policy_packs, merged reasons, step_up payload) that the sorted
\* listing of the same references gives.
C28_SortedPackOrder ==
    (engCall.active /\ engCall.raised = "None") => engCall.decision = DecisionInSortedOrder

-----------------------------------------------------------------------------
\* a send whose amount reaches the pack's threshold
HighValueSend(c) ==
    /\ Lower(OrEmpty(c.action)) = "send"
    /\ c.amount # NoInt /\ c.amount[1] >= HighValueThreshold

\* C29 (as stated): with HighValueStepUpPack as the only enabled pack and a
\* base policy that allows, decide on a context off the hard invariants
\* returns; for a send at or above the threshold the merged verdict is
\* STEP_UP with reason LARGE_AMOUNT and non-empty step_up requirements, and
\* for every other context it keeps the base verdict's kind.
C29_HighValueStepUp ==
    (/\ engCall.active /\ engine.enabled = <<HighValueRef>> /\ engine.policy = "allows"
     /\ ~HardInvariant(engCall.context)) =>
        /\ engCall.raised = "None"
        /\ HighValueSend(engCall.context) =>
              /\ engCall.decision.verdict.type = "STEP_UP"
              /\ \E i \in 1..Len(engCall.decision.verdict.reasons) :
                    engCall.decision.verdict.reasons[i] = "LARGE_AMOUNT"
              /\ engCall.decision.verdict.step_up.some
              /\ engCall.decision.verdict.step_up.requirements # <<>>
        /\ ~HighValueSend(engCall.context) =>
              engCall.decision.verdict.type =
                  BasePolicy(engine.policy, engCall.context).type

-----------------------------------------------------------------------------
(* C30: scopes from from_ttl and from binding are well formed *)

ScopeCall == fnCall.fn \in {"from_ttl", "bind_scope_from_eqc"}

\* C30 (as stated): a scope obtained from WSQKScope.from_ttl or from scope
\* binding has not_before = now, expires_at = now + ttl_seconds and
\* not_before <= expires_at, and a ttl_seconds <= 0 is rejected, so no scope
\* with expires_at < not_before is produced.
C30_ScopeWellFormed ==
    ScopeCall =>
        LET ttl == fnCall.args[1]
            t == fnCall.args[2]
            res == fnCall.result
        IN  /\ ttl <= 0 => res.raised # "None"
            /\ res.raised = "None" =>
                  /\ res.scope.not_before = t
                  /\ res.scope.expires_at = t + ttl
                  /\ res.scope.not_before <= res.scope.expires_at

-----------------------------------------------------------------------------
(* SpecSession: callers of one WSQKSession issue nonces and consume nonces,   *)
(* one call at a time, while the clock advances                               *)

\* the messages of the two WSQKSessionError raises (session.py lines 60, 82)
SessionNotActiveMessage == "WSQK session is not active (expired or not yet valid)."
NonceReplayMessage == "WSQK nonce replay detected (nonce already used)."

\* the exception consume_nonce raises for an outcome of ConsumeOutcome
SessionError(outcome) ==
    IF outcome = "SESSION_NOT_ACTIVE"
    THEN [raised |-> "WSQKSessionError", message |-> SessionNotActiveMessage]
    ELSE IF outcome = "NONCE_REPLAY"
    THEN [raised |-> "WSQKSessionError", message |-> NonceReplayMessage]
    ELSE [raised |-> "None", message |-> "None"]

\* str(uuid.uuid4()) values issue_nonce can return
UuidPool == {"u1", "u2"}
\* nonce strings a caller presents: issued ones and one of its own making
SessNonces == UuidPool \cup {"s1:u1"}
\* scope_hash arguments: omitted, empty, a scope's hash
SessScopeHashes == {"None", "", "s1"}
SessCreatedAt == {0, 1}
SessTtlValues == {0, 1}

InitSession ==
    /\ EqcIdle /\ EngIdle /\ FnIdle /\ StoreIdle /\ SessIdle /\ AcctIdle
    /\ GateIdle /\ ConcIdle
    /\ now = 0 /\ used_nonces = {}
    /\ \E t \in SessCreatedAt, ttl \in SessTtlValues : session = WSQKSession(t, ttl)
    /\ scope = NoScope /\ cap = NoCap /\ lastCall = NoCall /\ executions = EmptyBag

SessFrame ==
    UNCHANGED <<session, scope, cap, lastCall, executions, refused, eqcVars, gateVars,
                concVars, fnVars, storeVars, acctVars>>

\* session.issue_nonce(scope_hash=h): a fresh uuid4 string, nothing recorded
SessIssueNonce ==
    /\ sessCall = NoSessCall
    /\ \E h \in SessScopeHashes, n \in UuidPool \ issued :
        /\ issued' = issued \cup {n}
        /\ sessCall' = [op |-> "issue_nonce", nonce |-> n, scope_hash |-> h, at |-> now,
                        raised |-> "None", message |-> "None", usedBefore |-> used_nonces]
    /\ UNCHANGED <<now, used_nonces, consumed>>
    /\ SessFrame

\* session.consume_nonce(nonce, scope_hash=h) from entry to return or raise
SessConsumeNonce ==
    /\ sessCall = NoSessCall
    /\ \E h \in SessScopeHashes, n \in SessNonces :
        LET o == ConsumeOutcome(session, used_nonces, n, h, now)
        IN  /\ used_nonces' = ConsumeEffect(session, used_nonces, n, h, now)
            /\ consumed' = IF o = "OK" THEN consumed \cup {<<h, n>>} ELSE consumed
            /\ sessCall' = [op |-> "consume_nonce", nonce |-> n, scope_hash |-> h,
                            at |-> now, raised |-> SessionError(o).raised,
                            message |-> SessionError(o).message,
                            usedBefore |-> used_nonces]
    /\ UNCHANGED <<now, issued>>
    /\ SessFrame

\* the caller takes the result or the error
SessReturn ==
    /\ sessCall # NoSessCall
    /\ sessCall' = NoSessCall
    /\ UNCHANGED <<clockVars, issued, consumed>>
    /\ SessFrame

\* time passes between two calls
SessTick ==
    /\ sessCall = NoSessCall
    /\ now < MaxTime
    /\ now' = now + 1
    /\ UNCHANGED <<used_nonces, issued, consumed, sessCall>>
    /\ SessFrame

NextSession == SessIssueNonce \/ SessConsumeNonce \/ SessReturn \/ SessTick

SpecSession == InitSession /\ [][NextSession]_vars

-----------------------------------------------------------------------------
(* Claims about the session's used nonces, checked under SpecSession *)

Consuming == sessCall.op = "consume_nonce"
InWindow == session.created_at <= sessCall.at /\ sessCall.at <= session.expires_at

\* the key as the format string "{scope_fingerprint}:{nonce}" writes it
FormatKey(scope_hash, nonce) == scope_hash \o ":" \o nonce

\* C31 (as stated): no session operation removes a key, a successful
\* consume_nonce adds exactly the key "{scope_fingerprint}:{nonce}", and a
\* consume_nonce whose key is already present fails with NONCE_REPLAY and
\* leaves used_keys unchanged.
C31_UsedKeysGrowByFormattedKey ==
    sessCall.op # "None" =>
        /\ sessCall.usedBefore \subseteq used_nonces
        /\ (Consuming /\ sessCall.raised = "None") =>
              used_nonces = sessCall.usedBefore
                                \cup {FormatKey(sessCall.scope_hash, sessCall.nonce)}
        /\ (Consuming /\ NonceKey(sessCall.scope_hash, sessCall.nonce)
                            \in sessCall.usedBefore) =>
              /\ sessCall.message = NonceReplayMessage
              /\ used_nonces = sessCall.usedBefore

\* C31 (amended): no session operation removes a key and issue_nonce adds
\* none; a successful consume_nonce adds exactly one key that was not present,
\* "{scope_hash}:{nonce}" when a non-empty scope_hash is given and the bare
\* nonce otherwise; a consume_nonce that raises leaves used_nonces unchanged,
\* and one whose key is already present raises, with the replay error when
\* the session is active at the time of the call and with the session's
\* not-active error otherwise.
C31_UsedKeysGrow ==
    sessCall.op # "None" =>
        LET key == IF sessCall.scope_hash \in {"None", ""} THEN sessCall.nonce
                   ELSE FormatKey(sessCall.scope_hash, sessCall.nonce)
        IN  /\ sessCall.usedBefore \subseteq used_nonces
            /\ sessCall.op = "issue_nonce" => used_nonces = sessCall.usedBefore
            /\ (Consuming /\ sessCall.raised = "None") =>
                  /\ key \notin sessCall.usedBefore
                  /\ used_nonces = sessCall.usedBefore \cup {key}
            /\ (Consuming /\ sessCall.raised # "None") =>
                  used_nonces = sessCall.usedBefore
            /\ (Consuming /\ key \in sessCall.usedBefore) =>
                  /\ sessCall.raised = "WSQKSessionError"
                  /\ sessCall.message =
                        (IF InWindow THEN NonceReplayMessage ELSE SessionNotActiveMessage)

\* a key consumed earlier under a scope hash was presented again while the
\* session was active, and refused as a replay
C31_Witness ==
    /\ Consuming /\ sessCall.scope_hash = "s1" /\ InWindow
    /\ FormatKey("s1", sessCall.nonce) \in sessCall.usedBefore
    /\ sessCall.message = NonceReplayMessage
    /\ used_nonces = sessCall.usedBefore

\* C32: consume_nonce at a time outside the session's [created_at,
\* expires_at] window raises the session's not-active error, which differs
\* from the replay error, adds no key to used_nonces and leaves the nonce
\* unconsumed, also when the key had been consumed before.
C32_ExpiredSessionRefuses ==
    (Consuming /\ ~InWindow) =>
        /\ sessCall.raised = "WSQKSessionError"
        /\ sessCall.message = SessionNotActiveMessage
        /\ sessCall.message # NonceReplayMessage
        /\ used_nonces = sessCall.usedBefore
        /\ <<sessCall.scope_hash, sessCall.nonce>> \in consumed =>
              NonceKey(sessCall.scope_hash, sessCall.nonce) \in sessCall.usedBefore

\* a fresh nonce was presented after the session expired and was refused
\* without being consumed
C32_Witness ==
    /\ Consuming /\ sessCall.at > session.expires_at
    /\ sessCall.message = SessionNotActiveMessage
    /\ NonceKey(sessCall.scope_hash, sessCall.nonce) \notin used_nonces

\* C38 (as stated): consume_nonce succeeds only for a nonce that issue_nonce
\* of the same session returned earlier; a nonce the session never issued is
\* rejected.
C38_OnlyIssuedNoncesConsumed ==
    (Consuming /\ sessCall.nonce \notin issued) => sessCall.raised # "None"

\* whether a scope_hash argument is absent (None or empty)
ScopeAbsent(scope_hash) == scope_hash \in {"None", ""}

\* two calls name the same (scope fingerprint, nonce) pair
SamePair(p, q) ==
    /\ p[2] = q[2]
    /\ (ScopeAbsent(p[1]) /\ ScopeAbsent(q[1])) \/ p[1] = q[1]

\* C39 (as stated): distinct (scope_fingerprint, nonce) pairs never share a
\* used_keys entry: consume_nonce fails with the replay error only if the
\* same pair was consumed before, also when the scope fingerprint is absent
\* or the nonce contains the ':' separator.
C39_DistinctPairsDistinctKeys ==
    (Consuming /\ sessCall.message = NonceReplayMessage) =>
        \E p \in consumed : SamePair(p, <<sessCall.scope_hash, sessCall.nonce>>)

-----------------------------------------------------------------------------
(* C33: enabling and disabling policy packs *)

PackCall == fnCall.fn \in {"enable_policy_pack", "disable_policy_pack"}

\* how often name occurs in a list of references
Occurrences(enabled, name) == Cardinality({i \in 1..Len(enabled) : enabled[i] = name})

\* the list with every occurrence of name taken out, the rest in place
RECURSIVE Without(_, _)
Without(enabled, name) ==
    IF enabled = <<>> THEN <<>>
    ELSE IF Head(enabled) = name THEN Without(Tail(enabled), name)
    ELSE <<Head(enabled)>> \o Without(Tail(enabled), name)

\* what enable and disable do to the list, apart from how often an enabled
\* reference occurs
EnableDisableShape ==
    LET enabled == fnCall.args[1]
        name == fnCall.args[2]
        once == fnCall.result[1]
        twice == fnCall.result[2]
    IN  /\ twice = once
        /\ fnCall.fn = "enable_policy_pack" =>
              /\ Occurrences(enabled, name) > 0 => once = enabled
              /\ Occurrences(enabled, name) = 0 =>
                    /\ Len(once) = Len(enabled) + 1
                    /\ SubSeq(once, 1, Len(enabled)) = enabled
                    /\ once[Len(once)] = name
        /\ fnCall.fn = "disable_policy_pack" =>
              /\ Occurrences(enabled, name) = 0 => once = enabled
              /\ once = Without(enabled, name)

\* C33 (as stated): enable and disable are idempotent and order-preserving,
\* and after enable(x) the reference x occurs exactly once in the list.
C33_EnableLeavesOneOccurrence ==
    PackCall =>
        /\ EnableDisableShape
        /\ fnCall.fn = "enable_policy_pack" =>
              Occurrences(fnCall.result[1], fnCall.args[2]) = 1

\* C33 (amended): enable and disable are idempotent and order-preserving:
\* enabling a reference already in the list and disabling one not in it leave
\* the list unchanged, enabling a new reference appends it after the
\* existing ones, disabling removes every occurrence without reordering the
\* others; after enable(x) the reference x occurs as often as it did before
\* if it was in the list, repeats included, and exactly once if it was not.
C33_EnableDisableIdempotent ==
    PackCall =>
        /\ EnableDisableShape
        /\ fnCall.fn = "enable_policy_pack" =>
              Occurrences(fnCall.result[1], fnCall.args[2]) =
                  (IF Occurrences(fnCall.args[1], fnCall.args[2]) = 0 THEN 1
                   ELSE Occurrences(fnCall.args[1], fnCall.args[2]))
        /\ fnCall.fn = "disable_policy_pack" =>
              Occurrences(fnCall.result[1], fnCall.args[2]) = 0

\* a reference was disabled from between two others, which kept their order
C33_Witness ==
    /\ PackCall /\ Len(fnCall.args[1]) = 3
    /\ fnCall.args[1][2] = fnCall.args[2]
    /\ fnCall.args[1][1] # fnCall.args[2] /\ fnCall.args[1][3] # fnCall.args[2]
    /\ fnCall.args[1][1] # fnCall.args[1][3]
    /\ fnCall.fn = "disable_policy_pack"
    /\ fnCall.result[1] = <<fnCall.args[1][1], fnCall.args[1][3]>>

-----------------------------------------------------------------------------
(* Claims about the watch-only veto on the way to the executor, checked      *)
(* under Spec                                                                 *)

\* C34 (as stated): execute_intent never invokes the executor for an account
\* the account store holds as watch-only: the call ends with the watch-only
\* block before EQC is consulted.
C34_IntentVetoesWatchOnly ==
    (/\ icall.active /\ gcall # NoGateCall /\ gpc \notin {"idle", "watch"}
     /\ accounts[gcall.wallet_id] = "watch_only") =>
        /\ gout = ExecutionBlocked("WATCH_ONLY_FORBIDDEN")
        /\ ~Contains(glog, "eqc.decide")
        /\ ~Contains(glog, "executor")

\* both sources of the watch-only answer were handed to the gate
BothSourcesGiven ==
    gcall # NoGateCall /\ gcall.is_watch_only # "None" /\ gcall.account_store

\* C35 (as stated): with both an is_watch_only predicate and an account store
\* given, the executor runs only if neither the predicate nor the store
\* reports the account as watch-only.
C35_NeitherSourceReportsWatchOnly ==
    (BothSourcesGiven /\ Contains(glog, "executor")) =>
        /\ gcall.is_watch_only = "returns_false"
        /\ accounts[gcall.wallet_id] # "watch_only"

\* C35 (amended): with both an is_watch_only predicate and an account store
\* given, the predicate alone is consulted: the executor runs only if the
\* predicate does not report the account as watch-only, and the store is not
\* read, whatever it holds for the account.
C35_PredicateAloneDecides ==
    /\ (BothSourcesGiven /\ gpc \notin {"idle", "watch"}) =>
          /\ glog # <<>> /\ glog[1] = "is_watch_only"
          /\ ~Contains(glog, "account_store.is_watch_only")
          /\ gcall.is_watch_only = "returns_true" =>
                gout = ExecutionBlocked("WATCH_ONLY_FORBIDDEN") /\ Len(glog) = 1
    /\ (BothSourcesGiven /\ Contains(glog, "executor")) =>
          gcall.is_watch_only = "returns_false"

\* the executor ran for an account the store holds as watch-only, because
\* the predicate given along with the store answered false
C35_Witness ==
    /\ BothSourcesGiven /\ Contains(glog, "executor")
    /\ gcall.is_watch_only = "returns_false"
    /\ accounts[gcall.wallet_id] = "watch_only"

-----------------------------------------------------------------------------
(* Claims about the nonce in failed and in raising executions, checked under *)
(* SpecExec                                                                   *)

\* the call failed at the scope, wallet, action, context or capability check
FailedACheck ==
    /\ lastCall.active
    /\ lastCall.outcome \in {"SCOPE_NOT_ACTIVE", "SCOPE_MISMATCH", "CAPABILITY_INVALID"}

\* executor invocations so far that presented the session with the call's nonce
RunsOfNonce ==
    {e \in BagToSet(executions) : e.withSession /\ e.nonce = lastCall.nonce}

\* the call presents everything checks 1-5 ask for, at a time when scope,
\* capability and session are live
PassesAllChecks ==
    /\ lastCall.active /\ lastCall.withSession
    /\ lastCall.context = ExecContextA /\ lastCall.wallet_id = scope.wallet_id
    /\ Lower(lastCall.action) = Lower(scope.action)
    /\ lastCall.capability = cap
    /\ lastCall.at <= scope.expires_at /\ lastCall.at <= session.expires_at
    /\ (cap.ttl_seconds = NoInt \/ lastCall.at <= cap.issued_at + cap.ttl_seconds[1])

\* C36: a guarded execution that fails at the scope, wallet, action, context
\* or capability check leaves the session's used_nonces unchanged, and a nonce
\* presented only in such failed calls is accepted by the next call that
\* passes all checks, which consumes it and runs the executor with it once.
C36_FailedCheckKeepsNonce ==
    /\ FailedACheck =>
          /\ used_nonces = lastCall.usedBefore
          /\ lastCall.executor = "None"
    /\ (PassesAllChecks /\ lastCall.nonce \in refused /\ ~lastCall.sameBefore
            /\ RunsOfNonce \subseteq {Execution(lastCall)}) =>
          /\ lastCall.outcome = "OK"
          /\ NonceKey(ScopeHash(scope), lastCall.nonce) \in used_nonces
          /\ RunsOfNonce = {Execution(lastCall)}
          /\ CopiesIn(Execution(lastCall), executions) = 1

\* a nonce that an earlier call presented without a valid capability was
\* accepted by a call passing all checks
C36_Witness ==
    /\ PassesAllChecks /\ lastCall.nonce \in refused
    /\ lastCall.outcome = "OK"
    /\ NonceKey(ScopeHash(scope), lastCall.nonce) \notin lastCall.usedBefore
    /\ NonceKey(ScopeHash(scope), lastCall.nonce) \in used_nonces

\* the call repeats, argument for argument, a call whose executor raised
RetryAfterRaise ==
    /\ lastCall.active /\ lastCall.withSession
    /\ lastCall.executor # "raised"
    /\ Execution([lastCall EXCEPT !.executor = "raised"]) \in BagToSet(executions)

\* every (session, scope, nonce) has started the executor at most once,
\* whether it returned or raised, and its key is in used_nonces
StartedOncePerNonce ==
    \A e \in BagToSet(executions) :
        e.withSession =>
            /\ CopiesIn(e, executions) = 1
            /\ \A f \in BagToSet(executions) : (f.withSession /\ f.nonce = e.nonce) => f = e
            /\ NonceKey(ScopeHash(scope), e.nonce) \in used_nonces

\* C37 (as stated): the nonce is consumed before the executor runs and never
\* released; a retry of a call whose executor raised, with the same session,
\* scope and nonce, fails with NONCE_REPLAY, and the executor is started at
\* most once per (session, scope_fingerprint, nonce).
C37_RetryIsNonceReplay ==
    /\ StartedOncePerNonce
    /\ RetryAfterRaise => lastCall.outcome = "NONCE_REPLAY"

\* C37 (amended): the nonce is consumed before the executor runs and never
\* released: after the executor raised, the key stays in used_nonces, a retry
\* with the same session, scope and nonce never starts the executor again,
\* and it fails with NONCE_REPLAY whenever scope, capability and session are
\* all still live at the time of the retry, and with the error of the earlier
\* check otherwise; the executor is started at most once per (session,
\* scope_fingerprint, nonce) whether it returns or raises.
C37_RaisedNonceStaysConsumed ==
    /\ StartedOncePerNonce
    /\ (lastCall.active /\ lastCall.withSession /\ lastCall.executor # "None") =>
          /\ NonceKey(ScopeHash(scope), lastCall.nonce) \notin lastCall.usedBefore
          /\ NonceKey(ScopeHash(scope), lastCall.nonce) \in used_nonces
    /\ RetryAfterRaise =>
          /\ lastCall.outcome # "OK" /\ lastCall.executor = "None"
          /\ used_nonces = lastCall.usedBefore
          /\ PassesAllChecks => lastCall.outcome = "NONCE_REPLAY"

\* the call whose executor had raised was made again while everything was
\* live, and was refused as a replay
C37_Witness ==
    /\ RetryAfterRaise /\ PassesAllChecks
    /\ lastCall.outcome = "NONCE_REPLAY"

-----------------------------------------------------------------------------
(* SpecAccount: callers save and delete account records through one          *)
(* AccountStore and ask it whether an account is watch-only, one call at a   *)
(* time                                                                       *)

\* KeyNS.k: the upper-cased prefix, an underscore, the suffix
KeyNSk(prefix, suffix) == prefix \o "_" \o suffix

\* AccountStore._key
AccountKey(wallet_id, account_id) == KeyNSk("ACCOUNT", wallet_id \o ":" \o account_id)

\* asdict(AccountState(...)), with the fields is_watch_only does not read left out
AccountState(wallet_id, account_id, watch_only) ==
    [wallet_id |-> wallet_id, account_id |-> account_id, watch_only |-> watch_only]

\* the record of no account; storage.get returns None for it
NoAccount == AccountState("None", "None", "None")

\* identifiers callers use; nothing restricts the characters of either
AcctWallets == {"w1", "w1:a"}
AcctIds == {"a1", "a:a1"}
AcctPairs == AcctWallets \X AcctIds
AcctKeys == {AccountKey(p[1], p[2]) : p \in AcctPairs}

\* AccountStore.is_watch_only: load, False without a record, else its flag
IsWatchOnly(data, wallet_id, account_id) ==
    IF data[AccountKey(wallet_id, account_id)] = NoAccount THEN "False"
    ELSE data[AccountKey(wallet_id, account_id)].watch_only

InitAccount ==
    /\ ClockIdle /\ EqcIdle /\ EngIdle /\ FnIdle /\ StoreIdle /\ SessIdle
    /\ GateIdle /\ ExecIdle /\ ConcIdle
    /\ acctData = [k \in AcctKeys |-> NoAccount]
    /\ acctSaved = [p \in AcctPairs |-> NoAccount]
    /\ acctCall = NoAcctCall

AcctFrame ==
    UNCHANGED <<clockVars, eqcVars, gateVars, execVars, concVars, fnVars, storeVars, sessVars>>

\* store.save(AccountState(wallet_id, account_id, index, watch_only))
AcctSave ==
    /\ acctCall = NoAcctCall
    /\ \E p \in AcctPairs, flag \in {"False", "True"} :
        /\ acctData' = [acctData EXCEPT ![AccountKey(p[1], p[2])] =
                                             AccountState(p[1], p[2], flag)]
        /\ acctSaved' = [acctSaved EXCEPT ![p] = AccountState(p[1], p[2], flag)]
        /\ acctCall' = [op |-> "save", wallet_id |-> p[1], account_id |-> p[2],
                        result |-> "None"]
    /\ AcctFrame

\* store.delete(wallet_id, account_id)
AcctDelete ==
    /\ acctCall = NoAcctCall
    /\ \E p \in AcctPairs :
        /\ acctData' = [acctData EXCEPT ![AccountKey(p[1], p[2])] = NoAccount]
        /\ acctSaved' = [acctSaved EXCEPT ![p] = NoAccount]
        /\ acctCall' = [op |-> "delete", wallet_id |-> p[1], account_id |-> p[2],
                        result |-> "None"]
    /\ AcctFrame

\* store.is_watch_only(wallet_id, account_id)
AcctIsWatchOnly ==
    /\ acctCall = NoAcctCall
    /\ \E p \in AcctPairs :
        acctCall' = [op |-> "is_watch_only", wallet_id |-> p[1], account_id |-> p[2],
                     result |-> IsWatchOnly(acctData, p[1], p[2])]
    /\ UNCHANGED <<acctData, acctSaved>>
    /\ AcctFrame

\* the caller takes the result
AcctReturn ==
    /\ acctCall # NoAcctCall
    /\ acctCall' = NoAcctCall
    /\ UNCHANGED <<acctData, acctSaved>>
    /\ AcctFrame

NextAccount == AcctSave \/ AcctDelete \/ AcctIsWatchOnly \/ AcctReturn

SpecAccount == InitAccount /\ [][NextAccount]_vars

\* C40 (as stated): is_watch_only(wallet_id, account_id) returns the flag of
\* the record saved last for that pair, and False for a pair that has no
\* stored record because it was never saved or was deleted.
C40_WatchOnlyOfLastSaved ==
    acctCall.op = "is_watch_only" =>
        LET saved == acctSaved[<<acctCall.wallet_id, acctCall.account_id>>]
        IN  acctCall.result = (IF saved = NoAccount THEN "False" ELSE saved.watch_only)

====
